---- MODULE Spec2Model ----
(***************************************************************************)
(* Multi-source job scraper (Vamsi-klu/airflow_env).                       *)
(*                                                                         *)
(* Texts are sequences of one-character strings, so the regular            *)
(* expressions and the substring tests of the source are computed          *)
(* character by character.  Python's None is the value None below.         *)
(***************************************************************************)
EXTENDS Integers, Sequences, FiniteSets, TLC

VARIABLES
    text,          \* argument of the function under call (a description)
    window,        \* <<min_years, max_years>> argument of is_experience_in_range
    fn,            \* name of the function that was called ("none" before a call)
    ret,           \* value the call returned
    kind,          \* which aggregation pass runs: "all", "analytics", "scientist"
    creds,         \* configuration: which credentials are set (truthy)
    pc,            \* position of the pass: "run", "done", "crashed"
    idx,           \* index of the current (adapter, title) pair of the pass
    page,          \* page the pass requests next for that pair
    all_jobs,      \* the result list of the pass
    seen_job_ids,  \* the set of source-qualified ids seen in this pass
    budget,        \* postings the providers can still hand out in this run
    lastFetch,     \* what the last adapter call did
    fake,          \* the page a fixed fake adapter returns at every call (<<>>: none)
    clock,         \* wall clock, in ticks of 1/TicksPerSecond second
    files,         \* the output directory: path |-> content of the CSV file
    task,          \* state of each task instance of the DAG run
    tries,         \* attempts each task instance has made
    xcom,          \* values the tasks have pushed
    sns            \* the notification side: topic configured, clients, publishes,
                   \* and the message last handed to client.publish

vars == <<text, window, fn, ret, kind, creds, pc, idx, page, all_jobs,
          seen_job_ids, budget, lastFetch, fake, clock, files, task, tries,
          xcom, sns>>

callVars == <<text, window, fn, ret>>
stageVars == <<clock, files, task, tries, xcom, sns>>
passVars == <<kind, creds, pc, idx, page, all_jobs, seen_job_ids, budget,
              lastFetch, fake>>

---------------------------------------------------------------------------
(* Values *)

\* Python's None as a text argument.  A character is a string of length
\* one, so no text equals it.
None == <<"None">>

\* The component of the pair (None, None) the extractor returns when it
\* finds no requirement.
NoYears == -1

NoneReq == <<NoYears, NoYears>>

\* No match of a pattern at a position.
NoMatch == <<>>

\* `not text`
Falsy(t) == t = None \/ t = <<>>

---------------------------------------------------------------------------
(* Characters *)

Digits == <<"0","1","2","3","4","5","6","7","8","9">>

\* \d
IsDigit(c) == \E k \in 1..Len(Digits) : Digits[k] = c

DigitVal(c) == (CHOOSE k \in 1..Len(Digits) : Digits[k] = c) - 1

\* \s of a str pattern (and the white space of str.split): the ASCII
\* members of the class, which are space, \t, \n, \r, \f, \x0b and
\* \x1c to \x1f.  Its other members are non-ASCII characters (U+0085,
\* U+00A0, ...), which no modelled text contains.
IsSpace(c) ==
    c \in {" ", "\t", "\n", "\r", "\f", "", "", "", "", ""}

\* [-...to]: the ASCII members of the class.  Its other three members are
\* the non-ASCII characters U+00E2, U+20AC and U+201C, which no modelled
\* text contains.
IsRangeSep(c) == c \in {"-", "t", "o"}

UpperCase == <<"A","B","C","D","E","F","G","H","I","J","K","L","M",
               "N","O","P","Q","R","S","T","U","V","W","X","Y","Z">>

LowerCase == <<"a","b","c","d","e","f","g","h","i","j","k","l","m",
               "n","o","p","q","r","s","t","u","v","w","x","y","z">>

LowerChar(c) ==
    IF \E k \in 1..Len(UpperCase) : UpperCase[k] = c
    THEN LowerCase[CHOOSE k \in 1..Len(UpperCase) : UpperCase[k] = c]
    ELSE c

\* str.lower()
Lower(t) == [k \in 1..Len(t) |-> LowerChar(t[k])]

\* int(s) of a run of digits
RECURSIVE ToInt(_)
ToInt(s) ==
    IF s = <<>> THEN 0
    ELSE 10 * ToInt(SubSeq(s, 1, Len(s) - 1)) + DigitVal(s[Len(s)])

---------------------------------------------------------------------------
(* Regular-expression pieces.  Positions are 1-based; a position of       *)
(* Len(t) + 1 is the end of the text.                                     *)

\* The position after the longest run of digits (\d*) starting at i.
RECURSIVE SkipDigits(_, _)
SkipDigits(t, i) ==
    IF i <= Len(t) /\ IsDigit(t[i]) THEN SkipDigits(t, i + 1) ELSE i

\* \s*
RECURSIVE SkipSpace(_, _)
SkipSpace(t, i) ==
    IF i <= Len(t) /\ IsSpace(t[i]) THEN SkipSpace(t, i + 1) ELSE i

\* [-...to]*
RECURSIVE SkipRangeSep(_, _)
SkipRangeSep(t, i) ==
    IF i <= Len(t) /\ IsRangeSep(t[i]) THEN SkipRangeSep(t, i + 1) ELSE i

\* The literal w occurs in t at position i.
LitAt(t, i, w) ==
    /\ i >= 1
    /\ i + Len(w) - 1 <= Len(t)
    /\ \A k \in 1..Len(w) : t[i + k - 1] = w[k]

\* (?:\+)?
SkipPlus(t, i) == IF i <= Len(t) /\ t[i] = "+" THEN i + 1 ELSE i

W_year == <<"y","e","a","r">>
W_minimum == <<"m","i","n","i","m","u","m">>
W_of == <<"o","f">>
W_at == <<"a","t">>
W_least == <<"l","e","a","s","t">>

\* (?:of)?
SkipOf(t, i) == IF LitAt(t, i, W_of) THEN i + Len(W_of) ELSE i

---------------------------------------------------------------------------
(* The five patterns of extract_years_of_experience.  Each operator gives *)
(* match.groups() of a match that starts at position i, or NoMatch.  The  *)
(* quantifiers of these patterns meet disjoint character sets, so the     *)
(* greedy match is the only one.  What follows "year" in a pattern        *)
(* (s? and the optional groups) never fails and captures nothing.         *)


\* RangePatternAt with the hyphen missing from the separator class.
RangePatternAt_NoHyphen(t, i) ==
    LET a == SkipDigits(t, i)
        b == SkipSpace(t, a)
        c == IF b <= Len(t) /\ t[b] = "-" THEN b ELSE SkipRangeSep(t, b)
        d == SkipSpace(t, c)
        e == SkipDigits(t, d)
        f == SkipSpace(t, SkipPlus(t, SkipSpace(t, e)))
    IN  IF a > i /\ c > b /\ e > d /\ LitAt(t, f, W_year)
        THEN <<SubSeq(t, i, a - 1), SubSeq(t, d, e - 1)>>
        ELSE NoMatch

\* (\d+)\s*[-...to]+\s*(\d+)\s*(?:\+)?\s*years?...
RangePatternAt(t, i) ==
    LET a == SkipDigits(t, i)
        b == SkipSpace(t, a)
        c == SkipRangeSep(t, b)
        d == SkipSpace(t, c)
        e == SkipDigits(t, d)
        f == SkipSpace(t, SkipPlus(t, SkipSpace(t, e)))
    IN  IF a > i /\ c > b /\ e > d /\ LitAt(t, f, W_year)
        THEN <<SubSeq(t, i, a - 1), SubSeq(t, d, e - 1)>>
        ELSE NoMatch

\* (\d+)\s*\+\s*years?...
PlusPatternAt(t, i) ==
    LET a == SkipDigits(t, i)
        b == SkipSpace(t, a)
        c == SkipSpace(t, b + 1)
    IN  IF a > i /\ b <= Len(t) /\ t[b] = "+" /\ LitAt(t, c, W_year)
        THEN <<SubSeq(t, i, a - 1)>>
        ELSE NoMatch


\* BarePatternAt without the \s* between the number and the word.
BarePatternAt_NoSpace(t, i) ==
    LET a == SkipDigits(t, i)
    IN  IF a > i /\ LitAt(t, a, W_year)
        THEN <<SubSeq(t, i, a - 1)>>
        ELSE NoMatch

\* BarePatternAt with the word after the number optional.
BarePatternAt_AnyNumber(t, i) ==
    LET a == SkipDigits(t, i)
    IN  IF a > i THEN <<SubSeq(t, i, a - 1)>> ELSE NoMatch

\* (\d+)\s*years?...
BarePatternAt(t, i) ==
    LET a == SkipDigits(t, i)
        b == SkipSpace(t, a)
    IN  IF a > i /\ LitAt(t, b, W_year)
        THEN <<SubSeq(t, i, a - 1)>>
        ELSE NoMatch

\* The tail (\d+)\s*years? of the last two patterns, from position d.
YearsTailAt(t, d) ==
    LET e == SkipDigits(t, d)
        f == SkipSpace(t, e)
    IN  IF e > d /\ LitAt(t, f, W_year)
        THEN <<SubSeq(t, d, e - 1)>>
        ELSE NoMatch

\* minimum\s*(?:of)?\s*(\d+)\s*years?
MinimumPatternAt(t, i) ==
    IF LitAt(t, i, W_minimum)
    THEN YearsTailAt(t, SkipSpace(t, SkipOf(t, SkipSpace(t, i + Len(W_minimum)))))
    ELSE NoMatch

\* at\s*least\s*(\d+)\s*years?
AtLeastPatternAt(t, i) ==
    LET j == SkipSpace(t, i + Len(W_at))
    IN  IF LitAt(t, i, W_at) /\ LitAt(t, j, W_least)
        THEN YearsTailAt(t, SkipSpace(t, j + Len(W_least)))
        ELSE NoMatch

\* The list `patterns`, by index.
NumPatterns == 5

\* The list with the plus pattern ahead of the range pattern.
PatternAt_PlusFirst(n, t, i) ==
    CASE n = 1 -> PlusPatternAt(t, i)
      [] n = 2 -> RangePatternAt(t, i)
      [] n = 3 -> BarePatternAt(t, i)
      [] n = 4 -> MinimumPatternAt(t, i)
      [] n = 5 -> AtLeastPatternAt(t, i)

PatternAt(n, t, i) ==
    CASE n = 1 -> RangePatternAt(t, i)
      [] n = 2 -> PlusPatternAt(t, i)
      [] n = 3 -> BarePatternAt(t, i)
      [] n = 4 -> MinimumPatternAt(t, i)
      [] n = 5 -> AtLeastPatternAt(t, i)

\* re.search(patterns[n], t): the groups of the leftmost match, or NoMatch;
\* SearchFrom tries the start positions from i on, left to right.
RECURSIVE SearchFrom(_, _, _)
FirstMatch(groups, n, t, i) ==
    IF groups # NoMatch THEN groups ELSE SearchFrom(n, t, i + 1)

SearchFrom(n, t, i) ==
    IF i > Len(t) THEN NoMatch ELSE FirstMatch(PatternAt(n, t, i), n, t, i)

Search(n, t) == SearchFrom(n, t, 1)

\* The +3 of `years + 3`.
OpenEndedSpan == 3


RECURSIVE TryPatterns(_, _)

\* OnMatch with the single number returned as both ends.
OnMatch_NoSpan(groups, t, n) ==
    IF groups = NoMatch THEN TryPatterns(t, n + 1)
    ELSE IF Len(groups) = 2 /\ groups[2] # <<>>
         THEN <<ToInt(groups[1]), ToInt(groups[2])>>
    ELSE IF groups[1] # <<>>
         THEN <<ToInt(groups[1]), ToInt(groups[1])>>
    ELSE TryPatterns(t, n + 1)

\* The body of `if match:` for the groups of pattern n (NoMatch: the next
\* pattern is tried).
OnMatch(groups, t, n) ==
    IF groups = NoMatch THEN TryPatterns(t, n + 1)
    ELSE IF Len(groups) = 2 /\ groups[2] # <<>>
         THEN <<ToInt(groups[1]), ToInt(groups[2])>>
    ELSE IF groups[1] # <<>>
         THEN <<ToInt(groups[1]), ToInt(groups[1]) + OpenEndedSpan>>
    ELSE TryPatterns(t, n + 1)

\* The loop `for pattern in patterns` from pattern n on.
TryPatterns(t, n) ==
    IF n > NumPatterns THEN NoneReq ELSE OnMatch(Search(n, t), t, n)

extract_years_of_experience(t) ==
    IF Falsy(t) THEN NoneReq ELSE TryPatterns(Lower(t), 1)

\* The loop over the first k patterns only, from pattern n on, with the
\* same body as OnMatch.
RECURSIVE TryPatternsUpTo(_, _, _)
OnMatchUpTo(groups, t, n, k) ==
    IF groups = NoMatch THEN TryPatternsUpTo(t, n + 1, k)
    ELSE IF Len(groups) = 2 /\ groups[2] # <<>>
         THEN <<ToInt(groups[1]), ToInt(groups[2])>>
    ELSE IF groups[1] # <<>>
         THEN <<ToInt(groups[1]), ToInt(groups[1]) + OpenEndedSpan>>
    ELSE TryPatternsUpTo(t, n + 1, k)

TryPatternsUpTo(t, n, k) ==
    IF n > k THEN NoneReq ELSE OnMatchUpTo(Search(n, t), t, n, k)

\* The extractor with the list `patterns` cut after "N years".
extract_years_of_experience_FirstThree(t) ==
    IF Falsy(t) THEN NoneReq ELSE TryPatternsUpTo(Lower(t), 1, NumPatterns - 2)


\* is_experience_in_range asking for the requirement to lie within the
\* window.
is_experience_in_range_Contained(job_description, min_years, max_years) ==
    LET req == extract_years_of_experience(job_description)
    IN  IF req[1] = NoYears THEN TRUE
        ELSE req[1] >= min_years /\ req[2] <= max_years

\* is_experience_in_range with the boundaries excluded.
is_experience_in_range_Strict(job_description, min_years, max_years) ==
    LET req == extract_years_of_experience(job_description)
    IN  IF req[1] = NoYears THEN TRUE
        ELSE ~(req[2] <= min_years \/ req[1] >= max_years)

\* is_experience_in_range rejecting a description with no requirement.
is_experience_in_range_Reject(job_description, min_years, max_years) ==
    LET req == extract_years_of_experience(job_description)
    IN  IF req[1] = NoYears THEN FALSE
        ELSE ~(req[2] < min_years \/ req[1] > max_years)

is_experience_in_range(job_description, min_years, max_years) ==
    LET req == extract_years_of_experience(job_description)
        req_min == req[1]
        req_max == req[2]
    IN  IF req_min = NoYears THEN TRUE
        ELSE ~(req_max < min_years \/ req_min > max_years)

---------------------------------------------------------------------------
(* The skill matcher *)

ETL_SKILLS == <<
    <<"e","t","l">>,
    <<"d","a","t","a"," ","p","i","p","e","l","i","n","e">>,
    <<"a","i","r","f","l","o","w">>,
    <<"s","p","a","r","k">>,
    <<"s","q","l">>,
    <<"p","y","t","h","o","n">>,
    <<"d","a","t","a"," ","w","a","r","e","h","o","u","s","e">>,
    <<"s","n","o","w","f","l","a","k","e">>,
    <<"d","a","t","a","b","r","i","c","k","s">>,
    <<"d","b","t">>,
    <<"k","a","f","k","a">>,
    <<"d","a","t","a"," ","m","o","d","e","l","i","n","g">>,
    <<"b","i","g","q","u","e","r","y">>,
    <<"r","e","d","s","h","i","f","t">> >>

\* `skill in text`: skill is a substring of text.
Contains(t, w) == \E i \in 1..(Len(t) - Len(w) + 1) : LitAt(t, i, w)

\* sum(1 for skill in skills[n..] if skill in text)
RECURSIVE CountSkills(_, _, _)
CountSkills(skills, t, n) ==
    IF n > Len(skills) THEN 0
    ELSE (IF Contains(t, skills[n]) THEN 1 ELSE 0) + CountSkills(skills, t, n + 1)


\* has_etl_skills counting every occurrence of a keyword.
has_etl_skills_Occurrences(t) ==
    IF Falsy(t) THEN FALSE
    ELSE LET lt == Lower(t)
             hits == {<<n, i>> \in (1..Len(ETL_SKILLS)) \X (1..Len(lt)) :
                         LitAt(lt, i, ETL_SKILLS[n])}
         IN  Cardinality(hits) >= 2

\* job_scraper.has_etl_skills (BaseScraper.has_etl_skills is the same code).
has_etl_skills(t) ==
    IF Falsy(t) THEN FALSE
    ELSE LET skill_count == CountSkills(ETL_SKILLS, Lower(t), 1)
         IN  skill_count >= 2

REQUIRED_ETL_SKILLS == ETL_SKILLS

MIN_SKILLS_REQUIRED == 2

\* DataScientistETLJobFamily._has_etl_skills
_has_etl_skills(description) ==
    IF Falsy(description) THEN FALSE
    ELSE LET skill_count == CountSkills(REQUIRED_ETL_SKILLS, Lower(description), 1)
         IN  skill_count >= MIN_SKILLS_REQUIRED

---------------------------------------------------------------------------
(* Calls of the pure functions on bounded inputs.  An input text is a     *)
(* concatenation of at most a few pieces.                                 *)

\* The texts made of at most n pieces of toks.
RECURSIVE PieceTexts(_, _)
PieceTexts(toks, n) ==
    IF n = 0 THEN {<<>>}
    ELSE LET shorter == PieceTexts(toks, n - 1)
         IN  shorter \cup {t \o k : t \in shorter, k \in toks}

MaxPieces == 3

ExpPieces == {
    <<"3","-","7"," ","y","e","a","r","s">>,
    <<"5","+"," ","y","e","a","r","s">>,
    <<"4"," ","y","e","a","r","s">>,
    <<"m","i","n","i","m","u","m"," ","o","f"," ">>,
    <<"a","t"," ","l","e","a","s","t"," ">>,
    <<"1">>,
    <<" ">>,
    <<"-">>,
    <<"t","o">>,
    <<" ","t","o"," ">>,
    <<"+">>,
    <<"Y","e","a","r","s">>,
    <<"s","q","l">> }

ExpTexts == PieceTexts(ExpPieces, MaxPieces) \cup {None}

MaxRangePieces == 2

RangePieces == {
    <<"8","-","1","0"," ","y","e","a","r","s">>,
    <<"1","-","3"," ","y","e","a","r","s">>,
    <<"7","-","3"," ","y","e","a","r","s">>,
    <<"0"," ","y","e","a","r","s">>,
    <<"7","+"," ","y","e","a","r","s">>,
    <<"8"," ","y","e","a","r","s">>,
    <<" ","y","e","a","r">>,
    <<"2">> }

RangeTexts == PieceTexts(RangePieces, MaxRangePieces) \cup {None}

\* Windows are drawn from 0..MaxWindow on both sides.
MaxWindow == 8

MaxSkillPieces == 3

SkillPieces == {
    <<"s","q","l">>,
    <<"S","Q","L">>,
    <<"e","t","l">>,
    <<"P","y","t","h","o","n">>,
    <<"m","y","s","q","l">>,
    <<" ">>,
    <<"j","a","v","a">>,
    <<"d","a","t","a"," ">>,
    <<"p","i","p","e","l","i","n","e">> }

SkillTexts == PieceTexts(SkillPieces, MaxSkillPieces) \cup {None}

\* No aggregation pass is running.
\* The tasks of the DAG.
TaskIds == {"scrape_jobs", "export_csv", "send_notification"}

\* An XCom entry: nothing was pushed (xcom_pull gives None), or a value.
XNone == [pushed |-> FALSE, value |-> <<>>]
XVal(v) == [pushed |-> TRUE, value |-> v]

NoXComs == [jobs |-> XNone, csv_filepath |-> XNone, job_count |-> XNone,
            role_counts |-> XNone]

\* No DAG run, no export and no notification is under way.
\* No message was handed to client.publish.
NoMessage ==
    [Subject |-> <<>>, Total |-> <<>>, ByRole |-> {}, File |-> <<>>,
     JobCount |-> <<>>]

NoSns == [topic |-> FALSE, clients |-> 0, publishes |-> 0, message |-> NoMessage]

StageIdle ==
    /\ clock = 0
    /\ files = <<>>
    /\ task = [t \in TaskIds |-> "none"]
    /\ tries = [t \in TaskIds |-> 0]
    /\ xcom = NoXComs
    /\ sns = NoSns

PassIdle ==
    /\ kind = "none"
    /\ creds = [rapidapi_key |-> FALSE, adzuna_app_id |-> FALSE,
                adzuna_app_key |-> FALSE, remoteok_enabled |-> FALSE]
    /\ pc = "idle"
    /\ idx = 0
    /\ page = 0
    /\ all_jobs = <<>>
    /\ seen_job_ids = {}
    /\ budget = 0
    /\ lastFetch = <<>>
    /\ fake = <<>>

NoCall == fn = "none" /\ ret = <<>>

InitExtract ==
    /\ text \in ExpTexts
    /\ window = <<>>
    /\ NoCall
    /\ PassIdle
    /\ StageIdle

CallExtract ==
    /\ fn = "none"
    /\ fn' = "extract_years_of_experience"
    /\ ret' = extract_years_of_experience(text)
    /\ UNCHANGED <<text, window>>
    /\ UNCHANGED passVars
    /\ UNCHANGED stageVars

NextExtract == CallExtract

SpecExtract == InitExtract /\ [][NextExtract]_vars

InitRange ==
    /\ text \in RangeTexts
    /\ window = <<>>
    /\ NoCall
    /\ PassIdle
    /\ StageIdle

CallInRange ==
    /\ fn = "none"
    /\ \E min_years \in 0..MaxWindow, max_years \in 0..MaxWindow :
          /\ window' = <<min_years, max_years>>
          /\ ret' = is_experience_in_range(text, min_years, max_years)
    /\ fn' = "is_experience_in_range"
    /\ UNCHANGED text
    /\ UNCHANGED passVars
    /\ UNCHANGED stageVars

NextRange == CallInRange

SpecRange == InitRange /\ [][NextRange]_vars

InitSkills ==
    /\ text \in SkillTexts
    /\ window = <<>>
    /\ NoCall
    /\ PassIdle
    /\ StageIdle

CallHasEtlSkills ==
    /\ fn = "none"
    /\ fn' = "has_etl_skills"
    /\ ret' = has_etl_skills(text)
    /\ UNCHANGED <<text, window>>
    /\ UNCHANGED passVars
    /\ UNCHANGED stageVars

CallFamilyHasEtlSkills ==
    /\ fn = "none"
    /\ fn' = "_has_etl_skills"
    /\ ret' = _has_etl_skills(text)
    /\ UNCHANGED <<text, window>>
    /\ UNCHANGED passVars
    /\ UNCHANGED stageVars

NextSkills == CallHasEtlSkills \/ CallFamilyHasEtlSkills

SpecSkills == InitSkills /\ [][NextSkills]_vars

---------------------------------------------------------------------------
(* Configuration (config/config.py) *)

JOB_TITLES == <<
    <<"D","a","t","a"," ","E","n","g","i","n","e","e","r">>,
    <<"A","n","a","l","y","t","i","c","s"," ","E","n","g","i","n","e","e","r">>,
    <<"D","a","t","a"," ","S","c","i","e","n","t","i","s","t"," ","E","T","L">>,
    <<"D","a","t","a"," ","S","c","i","e","n","t","i","s","t"," ","S","Q","L">>,
    <<"D","a","t","a"," ","S","c","i","e","n","t","i","s","t"," ","P","y","t","h","o","n">> >>

EXPERIENCE_MIN_YEARS == 3
EXPERIENCE_MAX_YEARS == 7
MAX_PAGES_PER_SOURCE == 3

\* AnalyticsEngineerJobFamily.JOB_TITLE
ANALYTICS_JOB_TITLE == <<"A","n","a","l","y","t","i","c","s"," ","E","n","g","i","n","e","e","r">>

\* DataScientistETLJobFamily.SEARCH_TERMS
SEARCH_TERMS == <<
    <<"D","a","t","a"," ","S","c","i","e","n","t","i","s","t">>,
    <<"D","a","t","a"," ","S","c","i","e","n","t","i","s","t"," ","E","T","L">>,
    <<"D","a","t","a"," ","S","c","i","e","n","t","i","s","t"," ","S","Q","L">>,
    <<"D","a","t","a"," ","S","c","i","e","n","t","i","s","t"," ","P","y","t","h","o","n">>,
    <<"M","a","c","h","i","n","e"," ","L","e","a","r","n","i","n","g"," ","E","n","g","i","n","e","e","r">> >>

\* The source_name of the three scrapers.
source_name(src) ==
    CASE src = "jsearch" -> <<"J","S","e","a","r","c","h"," ","(","L","i","n","k","e","d","I","n","/","I","n","d","e","e","d","/","G","l","a","s","s","d","o","o","r",")">>
      [] src = "adzuna" -> <<"A","d","z","u","n","a"," ","(","M","o","n","s","t","e","r","/","C","a","r","e","e","r","B","u","i","l","d","e","r",")">>
      [] src = "remoteok" -> <<"R","e","m","o","t","e","O","K"," ","(","R","e","m","o","t","e"," ","J","o","b","s",")">>

\* The scrapers of a job family, in order.
scrapers == <<"jsearch", "adzuna", "remoteok">>

\* str.split()[0]: the text up to its first white space (the modelled
\* source names do not start with white space).
RECURSIVE FirstWord(_)
FirstWord(t) ==
    IF t = <<>> \/ IsSpace(Head(t)) THEN <<>>
    ELSE <<Head(t)>> \o FirstWord(Tail(t))

\* f"{scraper.source_name.split()[0].lower()}_", evaluated once.
FamilyPrefix ==
    [src \in {"jsearch", "adzuna", "remoteok"} |->
        Lower(FirstWord(source_name(src))) \o <<"_">>]

\* The source tag put before the provider's id: the literals "jsearch_",
\* "adzuna_", "remoteok_" of scrape_all_jobs, and
\* f"{scraper.source_name.split()[0].lower()}_" in a job family.
IdPrefix(k, src) ==
    IF k = "all"
    THEN CASE src = "jsearch" -> <<"j","s","e","a","r","c","h","_">>
           [] src = "adzuna" -> <<"a","d","z","u","n","a","_">>
           [] src = "remoteok" -> <<"r","e","m","o","t","e","o","k","_">>
    ELSE FamilyPrefix[src]

\* f"{prefix}{job['job_id']}"
QualifiedId(k, src, job_id) == IdPrefix(k, src) \o job_id

---------------------------------------------------------------------------
(* What the providers answer.  A posting carries the fields the filters   *)
(* and the deduplication read; the other fields are copied through.       *)

\* Provider-native ids: a missing id ("") and a present one.
NativeIds == {<<>>, <<"7">>}

D_InRangeSkills == <<"3","-","7"," ","y","e","a","r","s"," ","s","q","l"," ","e","t","l">>
D_InRangeNoSkills == <<"5","+"," ","y","e","a","r","s">>
D_OutOfRange == <<"1","0"," ","y","e","a","r","s"," ","s","q","l"," ","e","t","l">>

\* Descriptions a provider sends; None is a JSON null.
Descriptions == {D_InRangeSkills, D_InRangeNoSkills, D_OutOfRange, None}

\* RemoteOK positions: one the relevance filter keeps, one it drops.
P_DataEngineer == <<"D","a","t","a"," ","E","n","g","i","n","e","e","r">>
P_Chef == <<"C","h","e","f">>
Positions == {P_DataEngineer, P_Chef}

\* RemoteOK tags: none, and a list whose tags give a keyword once joined.
NoTags == <<>>
T_DataEngineer == <<<<"D","a","t","a">>, <<"E","n","g","i","n","e","e","r">>>>
TagLists == {NoTags, T_DataEngineer}

\* Titles a provider sends: a plain one, one that holds "remote", and a
\* JSON null.
T_Remote == <<"R","e","m","o","t","e"," ","D","a","t","a"," ","E","n","g","i","n","e","e","r">>
Titles == {P_DataEngineer, T_Remote, None}

\* JSearch and Adzuna postings: every id and description under the plain
\* title, a null description under the title with "remote", and a null
\* title.
Postings ==
    [job_id : NativeIds, description : Descriptions, title : {P_DataEngineer}]
    \cup {[job_id |-> <<"7">>, description |-> None, title |-> T_Remote],
          [job_id |-> <<"7">>, description |-> D_InRangeSkills, title |-> None]}

\* RemoteOK entries: every posting under the kept position, and one entry
\* under the dropped position (nothing else of a dropped entry is read).
RemotePostings ==
    [job_id : NativeIds, description : Descriptions, position : {P_DataEngineer},
     tags : {NoTags}]
    \cup {[job_id |-> <<"7">>, description |-> D_InRangeSkills, position |-> P_Chef,
           tags |-> NoTags]}

\* Postings one response carries at most, and all responses of a run
\* together.
MaxPerPage == 2
MaxPostings == 2

Min(a, b) == IF a < b THEN a ELSE b

\* The sequences over S of length at most n.
SeqsUpTo(S, n) == UNION {[1..m -> S] : m \in 0..n}

\* The outcomes of one HTTP request: a decoded body, a transport failure
\* (requests.get or raise_for_status raises) or a body that does not
\* decode (response.json() raises).
Responses(pool, b) ==
    {[outcome |-> "ok", data |-> d] : d \in SeqsUpTo(pool, Min(MaxPerPage, b))}
    \cup {[outcome |-> "transport", data |-> <<>>],
          [outcome |-> "parse", data |-> <<>>]}

\* The first entry of a RemoteOK body (metadata).
RemoteMeta == [job_id |-> <<>>, description |-> None, position |-> <<>>,
               tags |-> NoTags]

RemoteResponses(b) ==
    {[outcome |-> r.outcome,
      data |-> IF r.outcome = "ok" THEN <<RemoteMeta>> \o r.data ELSE <<>>] :
        r \in Responses(RemotePostings, b)}
    \cup {[outcome |-> "ok", data |-> <<>>]}

\* No request was made.
NoResponse == [outcome |-> "none", data |-> <<>>]

---------------------------------------------------------------------------
(* The source adapters.  Each gives the list fetch_jobs returns, whether  *)
(* it issued an HTTP request, and how the call ended: "ok", "error" (the  *)
(* except clause ran), "no_credential" or "disabled".                     *)

FetchResult(jobs, http, outcome) ==
    [jobs |-> jobs, http |-> http, outcome |-> outcome]

\* JSearch_fetch_jobs with no except clause: a failed request raises to
\* the caller.
JSearch_fetch_jobs_NoExcept(cfg, resp) ==
    IF ~cfg.rapidapi_key THEN FetchResult(<<>>, FALSE, "no_credential")
    ELSE IF resp.outcome # "ok" THEN FetchResult(<<>>, TRUE, "raised")
    ELSE FetchResult(
            [k \in 1..Len(resp.data) |->
                [job_id |-> resp.data[k].job_id,
                 title |-> resp.data[k].title,
                 description |-> resp.data[k].description]],
            TRUE, "ok")

\* JSearchScraper.fetch_jobs (job_scraper.fetch_jobs_jsearch is the same).
JSearch_fetch_jobs(cfg, resp) ==
    IF ~cfg.rapidapi_key THEN FetchResult(<<>>, FALSE, "no_credential")
    ELSE IF resp.outcome # "ok" THEN FetchResult(<<>>, TRUE, "error")
    ELSE FetchResult(
            [k \in 1..Len(resp.data) |->
                [job_id |-> resp.data[k].job_id,
                 title |-> resp.data[k].title,
                 description |-> resp.data[k].description]],
            TRUE, "ok")

W_remote == <<"r","e","m","o","t","e">>

\* "remote" in title.lower(), evaluated once per title.
RemoteInTitle ==
    [t \in Titles \ {None} |-> Contains(Lower(t), W_remote)]

\* The `remote` entry of a posting raises: .lower() of a null title, or,
\* when the title does not hold "remote" and the `or` goes on to the
\* description, .lower() of a null description.
AdzunaRemoteRaises(job) ==
    \/ job.title = None
    \/ ~RemoteInTitle[job.title] /\ job.description = None

\* Adzuna_fetch_jobs with no credential check: the request is made with
\* whatever the configuration holds.
Adzuna_fetch_jobs_NoKeyCheck(cfg, resp) ==
    IF resp.outcome # "ok" THEN FetchResult(<<>>, TRUE, "error")
    ELSE IF \E k \in 1..Len(resp.data) : AdzunaRemoteRaises(resp.data[k])
    THEN FetchResult(<<>>, TRUE, "error")
    ELSE FetchResult(
            [k \in 1..Len(resp.data) |->
                [job_id |-> resp.data[k].job_id,
                 title |-> resp.data[k].title,
                 description |-> resp.data[k].description]],
            TRUE, "ok")

\* AdzunaScraper.fetch_jobs (job_scraper.fetch_jobs_adzuna is the same):
\* an exception while the `remote` entry of a posting is computed is
\* turned into an empty list by the except clause.
Adzuna_fetch_jobs(cfg, resp) ==
    IF ~cfg.adzuna_app_id \/ ~cfg.adzuna_app_key
    THEN FetchResult(<<>>, FALSE, "no_credential")
    ELSE IF resp.outcome # "ok" THEN FetchResult(<<>>, TRUE, "error")
    ELSE IF \E k \in 1..Len(resp.data) : AdzunaRemoteRaises(resp.data[k])
    THEN FetchResult(<<>>, TRUE, "error")
    ELSE FetchResult(
            [k \in 1..Len(resp.data) |->
                [job_id |-> resp.data[k].job_id,
                 title |-> resp.data[k].title,
                 description |-> resp.data[k].description]],
            TRUE, "ok")

RELEVANT_KEYWORDS == <<
    <<"d","a","t","a"," ","e","n","g","i","n","e","e","r">>,
    <<"a","n","a","l","y","t","i","c","s"," ","e","n","g","i","n","e","e","r">>,
    <<"d","a","t","a"," ","s","c","i","e","n","t","i","s","t">>,
    <<"e","t","l">>,
    <<"d","a","t","a"," ","p","i","p","e","l","i","n","e">> >>

\* any(keyword in title ...), evaluated once per position.
RelevantPosition ==
    [p \in Positions |->
        \E n \in 1..Len(RELEVANT_KEYWORDS) :
            Contains(Lower(p), RELEVANT_KEYWORDS[n])]

\* " ".join(tags)
RECURSIVE JoinTags(_)
JoinTags(tags) ==
    IF tags = <<>> THEN <<>>
    ELSE IF Len(tags) = 1 THEN tags[1]
    ELSE tags[1] \o <<" ">> \o JoinTags(Tail(tags))

\* any(... keyword in tags), evaluated once per tag list.
RelevantTags ==
    [tg \in TagLists |->
        \E n \in 1..Len(RELEVANT_KEYWORDS) :
            Contains(Lower(JoinTags(tg)), RELEVANT_KEYWORDS[n])]

is_relevant(job) == RelevantPosition[job.position] \/ RelevantTags[job.tags]

\* [x for x in s if keep(x)]
RECURSIVE SelectRelevant(_)
SelectRelevant(s) ==
    IF s = <<>> THEN <<>>
    ELSE (IF is_relevant(Head(s))
          THEN <<[job_id |-> Head(s).job_id, title |-> Head(s).position,
                  description |-> Head(s).description]>>
          ELSE <<>>) \o SelectRelevant(Tail(s))

\* data[1:]
DropFirst(s) == IF s = <<>> THEN <<>> ELSE Tail(s)

\* RemoteOK_fetch_jobs that serves its list on page 1 only.
RemoteOK_fetch_jobs_FirstPageOnly(job_title, pg, cfg, resp) ==
    IF ~cfg.remoteok_enabled THEN FetchResult(<<>>, FALSE, "disabled")
    ELSE IF resp.outcome # "ok" THEN FetchResult(<<>>, TRUE, "error")
    ELSE IF pg > 1 THEN FetchResult(<<>>, TRUE, "ok")
    ELSE FetchResult(SelectRelevant(DropFirst(resp.data)), TRUE, "ok")

\* RemoteOKScraper.fetch_jobs(job_title, page) (job_scraper's
\* fetch_jobs_remoteok is the same): neither argument is read.
RemoteOK_fetch_jobs(job_title, pg, cfg, resp) ==
    IF ~cfg.remoteok_enabled THEN FetchResult(<<>>, FALSE, "disabled")
    ELSE IF resp.outcome # "ok" THEN FetchResult(<<>>, TRUE, "error")
    ELSE FetchResult(SelectRelevant(DropFirst(resp.data)), TRUE, "ok")

\* scraper.fetch_jobs(job_title, page); what the title and the page do to
\* a JSearch or Adzuna answer is in the body the provider sends.
fetch_jobs(src, job_title, pg, cfg, resp) ==
    CASE src = "jsearch" -> JSearch_fetch_jobs(cfg, resp)
      [] src = "adzuna" -> Adzuna_fetch_jobs(cfg, resp)
      [] src = "remoteok" -> RemoteOK_fetch_jobs(job_title, pg, cfg, resp)

\* The adapter reaches the network only with its credential (switch) set.
Enabled(src, cfg) ==
    CASE src = "jsearch" -> cfg.rapidapi_key
      [] src = "adzuna" -> cfg.adzuna_app_id /\ cfg.adzuna_app_key
      [] src = "remoteok" -> cfg.remoteok_enabled

\* The bodies a provider may send with b postings left, evaluated once.
ResponsesWith == [b \in 0..MaxPostings |-> Responses(Postings, b)]

RemoteResponsesWith == [b \in 0..MaxPostings |-> RemoteResponses(b)]

\* No fixed fake adapter: the providers answer as they like.
NoFake == <<>>

\* The pages of a fixed fake adapter: two postings with distinct ids, one
\* in range and one out of range by experience, in either order.
FakePages ==
    {pg \in [1..2 -> Postings] :
        /\ pg[1].title = P_DataEngineer /\ pg[2].title = P_DataEngineer
        /\ pg[1].job_id # pg[2].job_id
        /\ \E a, b \in 1..2 :
              /\ pg[a].description \in {D_InRangeSkills, D_InRangeNoSkills}
              /\ pg[b].description = D_OutOfRange}

\* The body a fixed fake adapter sends for src; for RemoteOK its two
\* postings come after the metadata entry, one relevant by its position
\* and one by its tags, with an irrelevant entry between them.
FakeResponse(src, fk) ==
    IF src = "remoteok"
    THEN [outcome |-> "ok",
          data |-> <<RemoteMeta,
                     [job_id |-> fk[1].job_id, description |-> fk[1].description,
                      position |-> P_DataEngineer, tags |-> NoTags],
                     [job_id |-> <<"9">>, description |-> D_InRangeSkills,
                      position |-> P_Chef, tags |-> NoTags],
                     [job_id |-> fk[2].job_id, description |-> fk[2].description,
                      position |-> P_Chef, tags |-> T_DataEngineer]>>]
    ELSE [outcome |-> "ok", data |-> fk]

\* The bodies the provider of src may send with b postings left; an
\* adapter that makes no request gets none, a fixed fake adapter always
\* sends its page.
ResponsesOf(src, cfg, b, fk) ==
    IF ~Enabled(src, cfg) THEN {NoResponse}
    ELSE IF fk # NoFake THEN {FakeResponse(src, fk)}
    ELSE IF src = "remoteok" THEN RemoteResponsesWith[b]
    ELSE ResponsesWith[b]

\* Postings a body carries (the metadata entry is none).
Carried(src, resp) ==
    IF src = "remoteok" /\ resp.data # <<>> THEN Len(resp.data) - 1
    ELSE Len(resp.data)

---------------------------------------------------------------------------
(* The aggregation passes: scrape_all_jobs and the scrape_jobs of the two *)
(* job families.  One step is one adapter call and the handling of the    *)
(* page it returns.                                                       *)

W_scientist == <<"s","c","i","e","n","t","i","s","t">>

SNIPPET_LENGTH == 500

Ellipsis == <<".",".",".">>

\* The (adapter, title) pairs a pass goes through, in the order of its
\* loops.  scrape_all_jobs calls RemoteOK once, with no title.
PlanAll ==
    [n \in 1..(2 * Len(JOB_TITLES) + 1) |->
        IF n <= Len(JOB_TITLES)
        THEN [source |-> "jsearch", job_title |-> JOB_TITLES[n]]
        ELSE IF n <= 2 * Len(JOB_TITLES)
        THEN [source |-> "adzuna", job_title |-> JOB_TITLES[n - Len(JOB_TITLES)]]
        ELSE [source |-> "remoteok", job_title |-> None]]

\* for scraper in self.scrapers (AnalyticsEngineerJobFamily)
PlanAnalytics ==
    [n \in 1..Len(scrapers) |->
        [source |-> scrapers[n], job_title |-> ANALYTICS_JOB_TITLE]]

\* for search_term in SEARCH_TERMS: for scraper in self.scrapers
\* (DataScientistETLJobFamily)
PlanScientist ==
    [n \in 1..(Len(SEARCH_TERMS) * Len(scrapers)) |->
        [source |-> scrapers[((n - 1) % Len(scrapers)) + 1],
         job_title |-> SEARCH_TERMS[((n - 1) \div Len(scrapers)) + 1]]]

Plan(k) ==
    CASE k = "all" -> PlanAll
      [] k = "analytics" -> PlanAnalytics
      [] k = "scientist" -> PlanScientist

\* Pages a pair may be asked for: range(1, MAX_PAGES_PER_SOURCE + 1), and
\* the single call of RemoteOK in scrape_all_jobs.
MaxPage(k, src) ==
    IF k = "all" /\ src = "remoteok" THEN 1 ELSE MAX_PAGES_PER_SOURCE

\* The verdicts of the two filters on the descriptions a provider sends,
\* evaluated once.
InRangeOf ==
    [d \in Descriptions |->
        is_experience_in_range(d, EXPERIENCE_MIN_YEARS, EXPERIENCE_MAX_YEARS)]

HasSkillsOf == [d \in Descriptions |-> has_etl_skills(d)]

FamilyHasSkillsOf == [d \in Descriptions |-> _has_etl_skills(d)]

\* "scientist" in job_title.lower(), evaluated once.
IsScientistTitle ==
    [t \in {JOB_TITLES[n] : n \in 1..Len(JOB_TITLES)} |->
        Contains(Lower(t), W_scientist)]

\* SkillRejects with the skill filter missing from the data-scientist
\* family.
SkillRejects_NoFamilyFilter(k, src, job_title, d) ==
    CASE k = "all" ->
            /\ src # "remoteok"
            /\ IsScientistTitle[job_title]
            /\ ~HasSkillsOf[d]
      [] k = "scientist" -> FALSE
      [] k = "analytics" -> FALSE

\* The skill filter of a pass rejects the description: for a title with
\* "scientist" in scrape_all_jobs (JSearch and Adzuna only), always in the
\* data-scientist family, never in the analytics family.
SkillRejects(k, src, job_title, d) ==
    CASE k = "all" ->
            /\ src # "remoteok"
            /\ IsScientistTitle[job_title]
            /\ ~HasSkillsOf[d]
      [] k = "scientist" -> ~FamilyHasSkillsOf[d]
      [] k = "analytics" -> FALSE

\* The source label normalize_job_data is given.
SourceLabel(k, src) ==
    IF k = "all"
    THEN CASE src = "jsearch" -> "JSearch (LinkedIn/Indeed)"
           [] src = "adzuna" -> "Adzuna (Monster/CareerBuilder)"
           [] src = "remoteok" -> "RemoteOK (Remote Jobs)"
    ELSE CASE src = "jsearch" -> "JSearch (LinkedIn/Indeed/Glassdoor)"
           [] src = "adzuna" -> "Adzuna (Monster/CareerBuilder)"
           [] src = "remoteok" -> "RemoteOK (Remote Jobs)"

\* normalize_job_data on the modelled fields; len() of a None description
\* raises, which the caller sees as Raised.
Raised == [raised |-> TRUE]

normalize_job_data(job, source) ==
    IF job.description = None THEN Raised
    ELSE [job_id |-> job.job_id,
          title |-> job.title,
          description_snippet |->
              IF Len(job.description) > SNIPPET_LENGTH
              THEN SubSeq(job.description, 1, SNIPPET_LENGTH) \o Ellipsis
              ELSE job.description,
          source |-> source]

\* HandleJob with a posting without a native id never taken as seen.
HandleJob_IdLessNotSeen(k, src, job_title, job, st) ==
    LET job_id == QualifiedId(k, src, job.job_id)
        normalized == normalize_job_data(
                          [job EXCEPT !.job_id = job_id],
                          SourceLabel(k, src))
    IN  IF job.job_id # <<>> /\ job_id \in st.seen THEN st
        ELSE IF ~InRangeOf[job.description]
                 \/ SkillRejects(k, src, job_title, job.description)
        THEN [st EXCEPT !.seen = @ \cup {job_id}]
        ELSE IF normalized = Raised
        THEN [st EXCEPT !.seen = @ \cup {job_id}, !.crashed = TRUE]
        ELSE [st EXCEPT !.seen = @ \cup {job_id},
                        !.all_jobs = Append(@, normalized)]

\* HandleJob with seen_job_ids.add(job_id) moved after the filters.
HandleJob_SeenAfterFilters(k, src, job_title, job, st) ==
    LET job_id == QualifiedId(k, src, job.job_id)
        normalized == normalize_job_data(
                          [job EXCEPT !.job_id = job_id],
                          SourceLabel(k, src))
    IN  IF job_id \in st.seen THEN st
        ELSE IF ~InRangeOf[job.description]
                 \/ SkillRejects(k, src, job_title, job.description)
        THEN st
        ELSE IF normalized = Raised
        THEN [st EXCEPT !.seen = @ \cup {job_id}, !.crashed = TRUE]
        ELSE [st EXCEPT !.seen = @ \cup {job_id},
                        !.all_jobs = Append(@, normalized)]

\* HandleJob with no `if job_id in seen_job_ids: continue`.
HandleJob_NoSeenCheck(k, src, job_title, job, st) ==
    LET job_id == QualifiedId(k, src, job.job_id)
        normalized == normalize_job_data(
                          [job EXCEPT !.job_id = job_id],
                          SourceLabel(k, src))
    IN  IF ~InRangeOf[job.description]
           \/ SkillRejects(k, src, job_title, job.description)
        THEN [st EXCEPT !.seen = @ \cup {job_id}]
        ELSE IF normalized = Raised
        THEN [st EXCEPT !.seen = @ \cup {job_id}, !.crashed = TRUE]
        ELSE [st EXCEPT !.seen = @ \cup {job_id},
                        !.all_jobs = Append(@, normalized)]

\* HandleJob with no `if not is_experience_in_range(...): continue`.
HandleJob_NoExperienceFilter(k, src, job_title, job, st) ==
    LET job_id == QualifiedId(k, src, job.job_id)
        normalized == normalize_job_data(
                          [job EXCEPT !.job_id = job_id],
                          SourceLabel(k, src))
    IN  IF job_id \in st.seen THEN st
        ELSE IF SkillRejects(k, src, job_title, job.description)
        THEN [st EXCEPT !.seen = @ \cup {job_id}]
        ELSE IF normalized = Raised
        THEN [st EXCEPT !.seen = @ \cup {job_id}, !.crashed = TRUE]
        ELSE [st EXCEPT !.seen = @ \cup {job_id},
                        !.all_jobs = Append(@, normalized)]

\* The body of `for job in jobs` on one job: st holds all_jobs, seen and
\* whether an exception left the pass.
HandleJob(k, src, job_title, job, st) ==
    LET job_id == QualifiedId(k, src, job.job_id)
        normalized == normalize_job_data(
                          [job EXCEPT !.job_id = job_id],
                          SourceLabel(k, src))
    IN  IF job_id \in st.seen THEN st
        ELSE IF ~InRangeOf[job.description]
                 \/ SkillRejects(k, src, job_title, job.description)
        THEN [st EXCEPT !.seen = @ \cup {job_id}]
        ELSE IF normalized = Raised
        THEN [st EXCEPT !.seen = @ \cup {job_id}, !.crashed = TRUE]
        ELSE [st EXCEPT !.seen = @ \cup {job_id},
                        !.all_jobs = Append(@, normalized)]

\* for job in jobs: ...
RECURSIVE HandleJobs(_, _, _, _, _)
HandleJobs(k, src, job_title, jobs, st) ==
    IF jobs = <<>> \/ st.crashed THEN st
    ELSE HandleJobs(k, src, job_title, Tail(jobs),
                    HandleJob(k, src, job_title, Head(jobs), st))

\* NextPosition with no `if not jobs: break`.
NextPosition_NoBreak(k, i, p, jobs) ==
    IF p < MaxPage(k, Plan(k)[i].source)
    THEN [idx |-> i, page |-> p + 1]
    ELSE [idx |-> i + 1, page |-> 1]

\* After the call for (idx, page) returned `jobs`: `if not jobs: break`
\* leaves the page loop, a handled page goes on to the next page, and the
\* last page of a pair to the next pair.
NextPosition(k, i, p, jobs) ==
    IF jobs # <<>> /\ p < MaxPage(k, Plan(k)[i].source)
    THEN [idx |-> i, page |-> p + 1]
    ELSE [idx |-> i + 1, page |-> 1]

\* The native ids of the jobs of a page that get through both filters of
\* the pass and through normalize_job_data.
PassingIds(k, src, job_title, jobs) ==
    {jobs[n].job_id : n \in {m \in 1..Len(jobs) :
        /\ InRangeOf[jobs[m].description]
        /\ ~SkillRejects(k, src, job_title, jobs[m].description)
        /\ jobs[m].description # None}}

\* One adapter call of the pass and the handling of its page.  The pass has
\* no try around the call or the loop body, so an exception from either
\* ends it.
PageStep(k, src, resp) ==
    \E pair \in {Plan(k)[idx]} :
    \E got \in {fetch_jobs(src, pair.job_title, page, creds, resp)} :
    \E st \in {HandleJobs(k, src, pair.job_title, got.jobs,
                          [all_jobs |-> all_jobs, seen |-> seen_job_ids,
                           crashed |-> FALSE])} :
    \E pos \in {NextPosition(k, idx, page, got.jobs)} :
        /\ lastFetch' = [source |-> src, idx |-> idx, page |-> page,
                         http |-> got.http, outcome |-> got.outcome,
                         returned |-> Len(got.jobs),
                         ids |-> {got.jobs[n].job_id : n \in 1..Len(got.jobs)},
                         passing |-> PassingIds(k, src, pair.job_title, got.jobs)]
        /\ budget' = IF fake # NoFake THEN budget
                      ELSE budget - Carried(src, resp)
        /\ all_jobs' = st.all_jobs
        /\ seen_job_ids' = st.seen
        /\ IF st.crashed \/ got.outcome = "raised"
           THEN pc' = "crashed" /\ UNCHANGED <<idx, page>>
           ELSE /\ idx' = pos.idx
                /\ page' = pos.page
                /\ pc' = IF pos.idx > Len(Plan(k)) THEN "done" ELSE "run"
        /\ UNCHANGED <<kind, creds, fake>>
        /\ UNCHANGED callVars
        /\ UNCHANGED stageVars

\* The adapter call: with the credential set the provider answers, without
\* it there is no request and nothing to answer.
AdapterCall(k, src) ==
    /\ pc = "run"
    /\ idx <= Len(Plan(k))
    /\ Plan(k)[idx].source = src
    /\ \E resp \in ResponsesOf(src, creds, budget, fake) : PageStep(k, src, resp)

\* scrape_all_jobs: the JSearch loop, the Adzuna loop, the RemoteOK call.
ScrapeAll_JSearch ==
    /\ kind = "all"
    /\ AdapterCall("all", "jsearch")

ScrapeAll_Adzuna ==
    /\ kind = "all"
    /\ AdapterCall("all", "adzuna")

ScrapeAll_RemoteOK ==
    /\ kind = "all"
    /\ AdapterCall("all", "remoteok")

\* AnalyticsEngineerJobFamily.scrape_jobs
Analytics_scrape_jobs ==
    /\ kind = "analytics"
    /\ AdapterCall("analytics", Plan("analytics")[idx].source)

\* DataScientistETLJobFamily.scrape_jobs
Scientist_scrape_jobs ==
    /\ kind = "scientist"
    /\ AdapterCall("scientist", Plan("scientist")[idx].source)

Configs ==
    [rapidapi_key : BOOLEAN, adzuna_app_id : BOOLEAN,
     adzuna_app_key : BOOLEAN, remoteok_enabled : BOOLEAN]

Init ==
    /\ kind \in {"all", "analytics", "scientist"}
    /\ creds \in Configs
    /\ pc = "run"
    /\ idx = 1
    /\ page = 1
    /\ all_jobs = <<>>
    /\ seen_job_ids = {}
    /\ budget = MaxPostings
    /\ lastFetch = <<>>
    /\ fake \in {NoFake} \cup FakePages
    /\ StageIdle
    /\ text = <<>>
    /\ window = <<>>
    /\ NoCall

\* Invocations of a pass in one behaviour.
MaxRuns == 2

\* The seen set an invocation starts with, kept from the one before.
InitialSeen_Carried(previous) == previous

\* seen_job_ids = set(): the seen set an invocation starts with, whatever
\* the invocation before it had seen.
InitialSeen(previous) == {}

\* The pass is invoked again (the next pipeline run); tries counts the
\* invocations made after the first.  Later invocations are followed
\* where the providers serve the same postings again: against a fixed
\* adapter.
NextRun ==
    /\ pc \in {"done", "crashed"}
    /\ fake # NoFake
    /\ tries["scrape_jobs"] + 1 < MaxRuns
    /\ tries' = [tries EXCEPT !["scrape_jobs"] = @ + 1]
    /\ pc' = "run"
    /\ idx' = 1
    /\ page' = 1
    /\ all_jobs' = <<>>
    /\ seen_job_ids' = InitialSeen(seen_job_ids)
    /\ budget' = MaxPostings
    /\ lastFetch' = <<>>
    /\ UNCHANGED <<kind, creds, fake, clock, files, task, xcom, sns>>
    /\ UNCHANGED callVars

Next ==
    \/ ScrapeAll_JSearch
    \/ ScrapeAll_Adzuna
    \/ ScrapeAll_RemoteOK
    \/ Analytics_scrape_jobs
    \/ Scientist_scrape_jobs
    \/ NextRun

Spec == Init /\ [][Next]_vars

\* Every HTTP request has a 30 s timeout and nothing else blocks, so a
\* pass that can take a step takes it.
FairSpec == Spec /\ WF_vars(Next)

---------------------------------------------------------------------------
(* The CSV exporter.  A CSV file is its header (the column names) and its *)
(* data rows (one cell per column); a job is a function from the keys it  *)
(* has to their values.                                                   *)

\* The list `columns` of export_to_csv.
COLUMNS == <<"job_id", "title", "company", "location", "remote", "job_type",
             "posted_date", "apply_link", "salary_min", "salary_max",
             "salary_currency", "experience_required", "source", "scraped_at",
             "description_snippet">>

\* The empty cell pandas writes for a missing value.
Blank == <<>>

CSV_FILENAME_PREFIX == <<"j","o","b","_","l","i","s","t","i","n","g","s">>
OUTPUT_DIR == <<"o","u","t","p","u","t">>

\* Ticks of the clock in one second: datetime.now() is finer than the
\* second the file name keeps.
TicksPerSecond == 2

TwoDigits(n) == <<Digits[(n \div 10) + 1], Digits[(n % 10) + 1]>>

\* datetime.now().strftime("%Y%m%d_%H%M%S") at tick t, counted from
\* 2024-01-01 00:00:00 (within January 2024).
Timestamp(t) ==
    LET sec == t \div TicksPerSecond
    IN  <<"2","0","2","4","0","1">> \o TwoDigits((sec \div 86400) + 1)
        \o <<"_">> \o TwoDigits((sec \div 3600) % 24)
        \o TwoDigits((sec \div 60) % 60) \o TwoDigits(sec % 60)

\* os.path.join(OUTPUT_DIR, f"{CSV_FILENAME_PREFIX}_{timestamp}.csv")
Filepath(t) ==
    OUTPUT_DIR \o <<"/">> \o CSV_FILENAME_PREFIX \o <<"_">> \o Timestamp(t)
    \o <<".","c","s","v">>

\* df.columns of pd.DataFrame(jobs): every key some job has.
DataFrameColumns(jobs) == UNION {DOMAIN jobs[n] : n \in 1..Len(jobs)}

\* [col for col in columns if col in df.columns]
RECURSIVE existing_columns(_, _)
existing_columns(cols, jobs) ==
    IF cols = <<>> THEN <<>>
    ELSE (IF Head(cols) \in DataFrameColumns(jobs) THEN <<Head(cols)>> ELSE <<>>)
         \o existing_columns(Tail(cols), jobs)

\* The cell of a job under a column: a job without the key has NaN there,
\* which to_csv writes as the empty string, as it does None (the source
\* is the label normalize_job_data was given, never None).
Cell(job, c) ==
    IF c \notin DOMAIN job THEN Blank
    ELSE IF c # "source" /\ job[c] = None THEN Blank
    ELSE job[c]

\* df[cols].to_csv(filepath, index=False)
to_csv(cols, jobs) ==
    [header |-> cols,
     rows |-> [n \in 1..Len(jobs) |->
                  [k \in 1..Len(cols) |-> Cell(jobs[n], cols[k])]]]

\* export_to_csv without the branch for an empty list.
export_to_csv_NoEmptyBranch(jobs, t) ==
    [filepath |-> Filepath(t),
     content |-> to_csv(existing_columns(COLUMNS, jobs), jobs)]

\* export_to_csv(jobs) called at tick t: the path it returns and the
\* content it writes there.
export_to_csv(jobs, t) ==
    [filepath |-> Filepath(t),
     content |-> IF jobs = <<>> THEN to_csv(COLUMNS, <<>>)
                 ELSE to_csv(existing_columns(COLUMNS, jobs), jobs)]

\* df.to_csv on the output directory: the file at the path is created or
\* replaced.
WriteFile(dir, path, content) ==
    [q \in DOMAIN dir \cup {path} |-> IF q = path THEN content ELSE dir[q]]

\* The title substrings of the role breakdown, in the order of the
\* if/elif chain, and the role each gives.
ROLES == <<
    [keyword |-> <<"d","a","t","a"," ","e","n","g","i","n","e","e","r">>,
     role |-> "Data Engineer"],
    [keyword |-> <<"a","n","a","l","y","t","i","c","s"," ","e","n","g","i","n","e","e","r">>,
     role |-> "Analytics Engineer"],
    [keyword |-> <<"d","a","t","a"," ","s","c","i","e","n","t","i","s","t">>,
     role |-> "Data Scientist"] >>

\* job.get("title", "")
TitleOf(job) == IF "title" \in DOMAIN job THEN job["title"] ELSE <<>>

\* The role of a title: the first substring of the chain that
\* title.lower() holds, or "Other".
RoleOf(title) ==
    LET hits == {n \in 1..Len(ROLES) : Contains(Lower(title), ROLES[n].keyword)}
    IN  IF hits = {} THEN "Other"
        ELSE ROLES[CHOOSE n \in hits : \A m \in hits : n <= m].role

\* RoleCounts with a job counted under every role whose substring its
\* title holds.
RoleCounts_EveryMatch(jobs) ==
    LET roles(t) == IF \A n \in 1..Len(ROLES) : ~Contains(Lower(t), ROLES[n].keyword)
                    THEN {"Other"}
                    ELSE {ROLES[n].role : n \in {m \in 1..Len(ROLES) :
                              Contains(Lower(t), ROLES[m].keyword)}}
    IN  {<<r, Cardinality({n \in 1..Len(jobs) : r \in roles(TitleOf(jobs[n]))})>> :
            r \in UNION {roles(TitleOf(jobs[n])) : n \in 1..Len(jobs)}}

\* The dict role_counts, as the set of its (role, count) items.
RoleCounts(jobs) ==
    {<<r, Cardinality({n \in 1..Len(jobs) : RoleOf(TitleOf(jobs[n])) = r})>> :
        r \in {RoleOf(TitleOf(jobs[n])) : n \in 1..Len(jobs)}}

\* export_csv_task: a pulled None becomes the empty list.  It gives the
\* file written and the values pushed; a title that is None makes
\* .lower() raise after the file is written and the path and the count
\* are pushed, and then no breakdown is pushed.
export_csv_task(pulled, t) ==
    LET jobs == IF pulled = XNone THEN <<>> ELSE pulled.value
        out == export_to_csv(jobs, t)
        raised == \E n \in 1..Len(jobs) : TitleOf(jobs[n]) = None
    IN  [csv_filepath |-> out.filepath, content |-> out.content,
         job_count |-> Len(jobs), raised |-> raised,
         role_counts |-> IF raised THEN XNone ELSE XVal(RoleCounts(jobs))]

\* Calls of the exporter on sample job lists.
Range(f) == {f[n] : n \in DOMAIN f}

V == <<"v">>

\* A job as normalize_job_data builds it, one with the job_family key the
\* families add, and one with only three of the columns.
FullJob == [c \in Range(COLUMNS) |-> V]
FamilyJob == [c \in Range(COLUMNS) \cup {"job_family"} |-> V]
PartialJob == [c \in {"source", "job_id", "title"} |-> V]

SampleJobs == {FullJob, FamilyJob, PartialJob}

MaxJobs == 2
MaxExports == 2
MaxTicks == 3

JobLists == SeqsUpTo(SampleJobs, MaxJobs)

\* Start of the calls: midnight, and the last second of a minute.
StartTicks == {0, 59 * TicksPerSecond}

ExportIdle ==
    /\ files = <<>>
    /\ task = [t \in TaskIds |-> "none"]
    /\ tries = [t \in TaskIds |-> 0]
    /\ xcom = NoXComs
    /\ sns = NoSns

InitExport ==
    /\ PassIdle
    /\ ExportIdle
    /\ clock \in StartTicks
    /\ text = <<>>
    /\ window = <<>>
    /\ NoCall

\* Time passes.
Tick ==
    /\ \E t0 \in StartTicks : clock >= t0 /\ clock < t0 + MaxTicks
    /\ clock' = clock + 1
    /\ UNCHANGED <<files, task, tries, xcom, sns>>
    /\ UNCHANGED passVars
    /\ UNCHANGED callVars

\* export_to_csv(jobs)
CallExportToCsv ==
    /\ tries["export_csv"] < MaxExports
    /\ \E jobs \in JobLists :
          \E out \in {export_to_csv(jobs, clock)} :
              /\ text' = XVal(jobs)
              /\ fn' = "export_to_csv"
              /\ ret' = out.filepath
              /\ files' = WriteFile(files, out.filepath, out.content)
    /\ tries' = [tries EXCEPT !["export_csv"] = @ + 1]
    /\ UNCHANGED <<clock, task, xcom, sns, window>>
    /\ UNCHANGED passVars

\* export_csv_task with what xcom_pull gave
CallExportCsvTask ==
    /\ tries["export_csv"] < MaxExports
    /\ \E pulled \in {XNone} \cup {XVal(jobs) : jobs \in JobLists} :
          \E out \in {export_csv_task(pulled, clock)} :
              /\ text' = pulled
              /\ fn' = "export_csv_task"
              /\ ret' = out.csv_filepath
              /\ files' = WriteFile(files, out.csv_filepath, out.content)
              /\ xcom' = [xcom EXCEPT !.csv_filepath = XVal(out.csv_filepath),
                                      !.job_count = XVal(out.job_count),
                                      !.role_counts = out.role_counts]
              /\ task' = [task EXCEPT !["export_csv"] =
                              IF out.raised THEN "failed" ELSE "success"]
    /\ tries' = [tries EXCEPT !["export_csv"] = @ + 1]
    /\ UNCHANGED <<clock, sns, window>>
    /\ UNCHANGED passVars

NextExport == Tick \/ CallExportToCsv \/ CallExportCsvTask

SpecExport == InitExport /\ [][NextExport]_vars

---------------------------------------------------------------------------
(* The notifier *)

\* What client.publish does: it returns, raises a ClientError whose
\* response has the "Error" entry the handler reads, raises a ClientError
\* without it, or raises something else.
PublishOutcomes == {"ok", "ClientError", "ClientErrorNoBody", "Exception"}

\* What a call that needs a client meets: boto3.client raises (no usable
\* region or profile), or the client is there and the request goes out.
SnsOutcomes == {"NoClient"} \cup PublishOutcomes

\* response["TopicArn"] of create_topic
TopicArn == <<"a","r","n",":","a","w","s",":","s","n","s">>

\* str(n)
RECURSIVE Str(_)
Str(n) ==
    IF n < 10 THEN <<Digits[n + 1]>>
    ELSE Str(n \div 10) \o <<Digits[(n % 10) + 1]>>

\* What the message says: the count in the subject, the total and the
\* breakdown by role in the body (an empty breakdown reads "not
\* available"), the path of the file, and the JobCount attribute.
Message(job_count, csv_filepath, role_counts) ==
    [Subject |-> Str(job_count), Total |-> Str(job_count), ByRole |-> role_counts,
     File |-> csv_filepath, JobCount |-> Str(job_count)]

\* What a call of send_notification did.
Sent(flag, clients, publishes, message) ==
    [raised |-> FALSE, ret |-> flag, clients |-> clients, publishes |-> publishes,
     message |-> message]

\* A call of send_notification that raised.
SendRaised(clients, publishes, message) ==
    [raised |-> TRUE, ret |-> FALSE, clients |-> clients, publishes |-> publishes,
     message |-> message]

\* send_notification without the test of the topic.
send_notification_NoTopicCheck(job_count, csv_filepath, role_counts, topic, outcome) ==
    Sent(outcome = "ok", 1, 1, Message(job_count, csv_filepath, role_counts))

\* send_notification that reports the number of roles as the count.
send_notification_CountsRoles(job_count, csv_filepath, role_counts, topic, outcome) ==
    IF ~topic THEN Sent(FALSE, 0, 0, NoMessage)
    ELSE Sent(outcome = "ok", 1, 1,
              Message(Cardinality(role_counts), csv_filepath, role_counts))

\* send_notification(job_count, csv_filepath, role_counts) with the topic
\* configured or not and what the client does: whether it raises, the
\* flag it returns, the calls of boto3.client and of client.publish it
\* makes and the message it hands to client.publish.  get_sns_client() is
\* called outside the try, and the ClientError handler reads
\* e.response["Error"]["Code"], so an exception of boto3.client and a
\* ClientError without that entry leave the function.
send_notification(job_count, csv_filepath, role_counts, topic, outcome) ==
    IF ~topic THEN Sent(FALSE, 0, 0, NoMessage)
    ELSE IF outcome = "NoClient" THEN SendRaised(1, 0, NoMessage)
    ELSE IF outcome = "ClientErrorNoBody"
    THEN SendRaised(1, 1, Message(job_count, csv_filepath, role_counts))
    ELSE Sent(outcome = "ok", 1, 1, Message(job_count, csv_filepath, role_counts))

\* create_sns_topic(topic_name): the ARN, None after a ClientError, or an
\* exception (of boto3.client, or of create_topic when it is no
\* ClientError).
create_sns_topic(outcome) ==
    CASE outcome = "NoClient" -> [raised |-> TRUE, ret |-> None, clients |-> 1]
      [] outcome = "ok" -> [raised |-> FALSE, ret |-> TopicArn, clients |-> 1]
      [] outcome \in {"ClientError", "ClientErrorNoBody"} ->
            [raised |-> FALSE, ret |-> None, clients |-> 1]
      [] outcome = "Exception" -> [raised |-> TRUE, ret |-> None, clients |-> 1]

\* subscribe_email(topic_arn, email): TRUE, FALSE after a ClientError, or
\* an exception.
subscribe_email(outcome) ==
    CASE outcome = "NoClient" -> [raised |-> TRUE, ret |-> FALSE, clients |-> 1]
      [] outcome = "ok" -> [raised |-> FALSE, ret |-> TRUE, clients |-> 1]
      [] outcome \in {"ClientError", "ClientErrorNoBody"} ->
            [raised |-> FALSE, ret |-> FALSE, clients |-> 1]
      [] outcome = "Exception" -> [raised |-> TRUE, ret |-> FALSE, clients |-> 1]

\* ti.xcom_pull(...) or default
PullOr(x, default) == IF x = XNone THEN default ELSE x.value

W_Unknown == <<"U","n","k","n","o","w","n">>

\* send_notification_task with what the export task pushed.
send_notification_task(xc, topic, outcome) ==
    send_notification(PullOr(xc.job_count, 0), PullOr(xc.csv_filepath, W_Unknown),
                      PullOr(xc.role_counts, {}), topic, outcome)

\* Calls of the notifier's public functions, one after another.
MaxClients == 3

InitSns ==
    /\ PassIdle
    /\ clock = 0
    /\ files = <<>>
    /\ task = [t \in TaskIds |-> "none"]
    /\ tries = [t \in TaskIds |-> 0]
    /\ xcom = NoXComs
    /\ sns \in {[NoSns EXCEPT !.topic = b] : b \in BOOLEAN}
    /\ text = <<>>
    /\ window = <<>>
    /\ NoCall

\* send_notification(job_count, csv_filepath, role_counts)
CallSendNotification ==
    /\ sns.clients < MaxClients
    /\ \E job_count \in 0..MaxJobs, outcome \in SnsOutcomes :
       \E role_counts \in {{}, {<<"Other", job_count>>}} :
       \E out \in {send_notification(job_count, Filepath(clock), role_counts,
                                      sns.topic, outcome)} :
          /\ sns' = [sns EXCEPT !.clients = @ + out.clients,
                                !.publishes = @ + out.publishes,
                                !.message = IF out.publishes > 0 THEN out.message
                                            ELSE @]
          /\ fn' = "send_notification"
          /\ ret' = IF out.raised THEN Raised ELSE out.ret
          /\ text' = <<outcome>>
    /\ UNCHANGED <<clock, files, task, tries, xcom, window>>
    /\ UNCHANGED passVars

\* create_sns_topic(topic_name)
CallCreateSnsTopic ==
    /\ sns.clients < MaxClients
    /\ \E outcome \in SnsOutcomes :
       \E out \in {create_sns_topic(outcome)} :
          /\ sns' = [sns EXCEPT !.clients = @ + out.clients]
          /\ fn' = "create_sns_topic"
          /\ ret' = IF out.raised THEN Raised ELSE out.ret
          /\ text' = <<outcome>>
    /\ UNCHANGED <<clock, files, task, tries, xcom, window>>
    /\ UNCHANGED passVars

\* subscribe_email(topic_arn, email)
CallSubscribeEmail ==
    /\ sns.clients < MaxClients
    /\ \E outcome \in SnsOutcomes :
       \E out \in {subscribe_email(outcome)} :
          /\ sns' = [sns EXCEPT !.clients = @ + out.clients]
          /\ fn' = "subscribe_email"
          /\ ret' = IF out.raised THEN Raised ELSE out.ret
          /\ text' = <<outcome>>
    /\ UNCHANGED <<clock, files, task, tries, xcom, window>>
    /\ UNCHANGED passVars

NextSns == CallSendNotification \/ CallCreateSnsTopic \/ CallSubscribeEmail

SpecSns == InitSns /\ [][NextSns]_vars

---------------------------------------------------------------------------
(* The DAG: scrape_jobs >> export_csv >> send_notification.  A task       *)
(* instance is "none", "running", "success", "up_for_retry", "failed" or  *)
(* "upstream_failed".                                                     *)

DAG_RETRIES == 2
DAG_RETRY_DELAY_MINUTES == 5

\* retry_delay in ticks of the clock.
RetryDelay == DAG_RETRY_DELAY_MINUTES * 60 * TicksPerSecond

\* Upstream with the dependency line missing.
Upstream_NoDependencies(t) == {}

\* The tasks directly upstream of t.
Upstream(t) ==
    CASE t = "scrape_jobs" -> {}
      [] t = "export_csv" -> {"scrape_jobs"}
      [] t = "send_notification" -> {"export_csv"}

\* The keys of a normalized job that the pass model leaves out, with a
\* value: normalize_job_data sets every column.
AllKeys(job) ==
    [c \in Range(COLUMNS) |-> IF c \in DOMAIN job THEN job[c] ELSE V]

InitDag ==
    /\ kind = "all"
    /\ creds \in Configs
    /\ pc = "idle"
    /\ idx = 0
    /\ page = 0
    /\ all_jobs = <<>>
    /\ seen_job_ids = {}
    /\ budget = MaxPostings
    /\ lastFetch = <<>>
    /\ fake = NoFake
    /\ clock = 0
    /\ files = <<>>
    /\ task = [t \in TaskIds |-> "none"]
    /\ tries = [t \in TaskIds |-> 0]
    /\ xcom = NoXComs
    /\ sns \in {[NoSns EXCEPT !.topic = b] : b \in BOOLEAN}
    /\ text = <<>>
    /\ window = <<>>
    /\ NoCall

\* The scheduler starts a task instance once every upstream task has
\* succeeded (trigger rule all_success), a retry retry_delay after the
\* try that failed; scrape_jobs_task then calls scrape_all_jobs afresh,
\* against providers that carry their postings again.
TaskStart(t) ==
    /\ task[t] \in {"none", "up_for_retry"}
    /\ \A u \in Upstream(t) : task[u] = "success"
    /\ task' = [task EXCEPT ![t] = "running"]
    /\ tries' = [tries EXCEPT ![t] = @ + 1]
    /\ clock' = IF task[t] = "up_for_retry" THEN clock + RetryDelay ELSE clock
    /\ IF t = "scrape_jobs"
       THEN /\ pc' = "run"
            /\ idx' = 1
            /\ page' = 1
            /\ all_jobs' = <<>>
            /\ seen_job_ids' = {}
            /\ lastFetch' = <<>>
            /\ budget' = MaxPostings
       ELSE UNCHANGED <<pc, idx, page, all_jobs, seen_job_ids, lastFetch,
                        budget>>
    /\ UNCHANGED <<kind, creds, fake, files, xcom, sns>>
    /\ UNCHANGED callVars

\* A task whose upstream task failed is not run.
UpstreamFailed(t) ==
    /\ task[t] = "none"
    /\ \E u \in Upstream(t) : task[u] \in {"failed", "upstream_failed"}
    /\ task' = [task EXCEPT ![t] = "upstream_failed"]
    /\ UNCHANGED <<tries, clock, files, xcom, sns>>
    /\ UNCHANGED passVars
    /\ UNCHANGED callVars

\* scrape_jobs_task after scrape_all_jobs returned: the list is pushed.
ScrapeFinish ==
    /\ task["scrape_jobs"] = "running"
    /\ pc = "done"
    /\ xcom' = [xcom EXCEPT !.jobs =
                    XVal([n \in 1..Len(all_jobs) |-> AllKeys(all_jobs[n])])]
    /\ task' = [task EXCEPT !["scrape_jobs"] = "success"]
    /\ UNCHANGED <<tries, clock, files, sns>>
    /\ UNCHANGED passVars
    /\ UNCHANGED callVars

\* scrape_all_jobs raised: the task instance fails and is retried up to
\* DAG_RETRIES times.
ScrapeFail ==
    /\ task["scrape_jobs"] = "running"
    /\ pc = "crashed"
    /\ task' = [task EXCEPT !["scrape_jobs"] =
                    IF tries["scrape_jobs"] <= DAG_RETRIES
                    THEN "up_for_retry" ELSE "failed"]
    /\ UNCHANGED <<tries, clock, files, xcom, sns>>
    /\ UNCHANGED passVars
    /\ UNCHANGED callVars

\* export_csv_task
ExportCsvTask ==
    /\ task["export_csv"] = "running"
    /\ \E out \in {export_csv_task(xcom.jobs, clock)} :
           /\ files' = WriteFile(files, out.csv_filepath, out.content)
           /\ xcom' = [xcom EXCEPT !.csv_filepath = XVal(out.csv_filepath),
                                   !.job_count = XVal(out.job_count),
                                   !.role_counts = out.role_counts]
           /\ task' = [task EXCEPT !["export_csv"] =
                           IF ~out.raised THEN "success"
                           ELSE IF tries["export_csv"] <= DAG_RETRIES
                           THEN "up_for_retry" ELSE "failed"]
    /\ UNCHANGED <<tries, clock, sns>>
    /\ UNCHANGED passVars
    /\ UNCHANGED callVars

\* send_notification_task: whatever flag send_notification returns, the
\* task returns it; when send_notification raises, so does the task, and
\* the task instance fails and is retried up to DAG_RETRIES times.
SendNotificationTask ==
    /\ task["send_notification"] = "running"
    /\ \E outcome \in (IF sns.topic THEN SnsOutcomes ELSE {"ok"}) :
       \E out \in {send_notification_task(xcom, sns.topic, outcome)} :
          /\ sns' = [sns EXCEPT !.clients = @ + out.clients,
                                !.publishes = @ + out.publishes,
                                !.message = IF out.publishes > 0 THEN out.message
                                            ELSE @]
          /\ fn' = "send_notification"
          /\ ret' = IF out.raised THEN Raised ELSE out.ret
          /\ text' = <<outcome>>
          /\ task' = [task EXCEPT !["send_notification"] =
                          IF ~out.raised THEN "success"
                          ELSE IF tries["send_notification"] <= DAG_RETRIES
                          THEN "up_for_retry" ELSE "failed"]
    /\ UNCHANGED <<tries, clock, files, xcom, window>>
    /\ UNCHANGED passVars

NextDag ==
    \/ \E t \in TaskIds : TaskStart(t)
    \/ \E t \in TaskIds : UpstreamFailed(t)
    \/ ScrapeAll_JSearch
    \/ ScrapeAll_Adzuna
    \/ ScrapeAll_RemoteOK
    \/ ScrapeFinish
    \/ ScrapeFail
    \/ ExportCsvTask
    \/ SendNotificationTask

SpecDag == InitDag /\ [][NextDag]_vars

\* The scheduler and the workers keep running.
FairSpecDag == SpecDag /\ WF_vars(NextDag)

\* The rest of a run whose scrape_jobs task has succeeded and pushed a
\* list of postings with titles: titles of each role, one holding the
\* substrings of two roles, one of no role, and a null title.
T_DataEngineer_Senior == <<"S","r"," ","D","a","t","a"," ","E","n","g","i","n","e","e","r">>
T_AnalyticsEngineer == <<"A","n","a","l","y","t","i","c","s"," ","E","n","g","i","n","e","e","r">>
T_ScientistEngineer == <<"D","a","t","a"," ","S","c","i","e","n","t","i","s","t","/",
                         "D","a","t","a"," ","E","n","g","i","n","e","e","r">>
T_DataScientist == <<"D","A","T","A"," ","S","C","I","E","N","T","I","S","T">>
T_Chef == <<"C","h","e","f">>

RoleTitles == {T_DataEngineer_Senior, T_AnalyticsEngineer, T_ScientistEngineer,
               T_DataScientist, T_Chef, None}

TitledJob(t) == [FullJob EXCEPT !["title"] = t]

TitledJobLists == SeqsUpTo({TitledJob(t) : t \in RoleTitles}, MaxJobs)

InitRoles ==
    /\ PassIdle
    /\ clock = 0
    /\ files = <<>>
    /\ task = [t \in TaskIds |-> IF t = "scrape_jobs" THEN "success" ELSE "none"]
    /\ tries = [t \in TaskIds |-> IF t = "scrape_jobs" THEN 1 ELSE 0]
    /\ \E jobs \in TitledJobLists : xcom = [NoXComs EXCEPT !.jobs = XVal(jobs)]
    /\ sns \in {[NoSns EXCEPT !.topic = b] : b \in BOOLEAN}
    /\ text = <<>>
    /\ window = <<>>
    /\ NoCall

NextRoles ==
    \/ \E t \in TaskIds : TaskStart(t)
    \/ \E t \in TaskIds : UpstreamFailed(t)
    \/ ExportCsvTask
    \/ SendNotificationTask

SpecRoles == InitRoles /\ [][NextRoles]_vars

---------------------------------------------------------------------------
(* Claims about the pure functions *)

P_3_7_years == <<"3","-","7"," ","y","e","a","r","s">>
P_5plus_years == <<"5","+"," ","y","e","a","r","s">>
P_minimum_of_4_years == <<"m","i","n","i","m","u","m"," ","o","f"," ","4"," ","y","e","a","r","s">>
P_8_10_years == <<"8","-","1","0"," ","y","e","a","r","s">>
P_1_3_years == <<"1","-","3"," ","y","e","a","r","s">>

Extracted == fn = "extract_years_of_experience"
RangeChecked == fn = "is_experience_in_range"
SkillsChecked == fn \in {"has_etl_skills", "_has_etl_skills"}

\* The text has a digit.
HasDigit(t) == \E i \in 1..Len(t) : IsDigit(t[i])

\* Position i starts an occurrence of "3-7 years" and no digit stands
\* before it.
FirstNumberIs3To7At(t, i) ==
    /\ LitAt(t, i, P_3_7_years)
    /\ \A j \in 1..(i - 1) : ~IsDigit(t[j])

\* C4 as stated: for all text containing "3-7 years", whatever precedes or
\* follows it, extract_years_of_experience returns exactly (3,7).
C4_AnyTextWith3To7 ==
    (Extracted /\ text # None /\ Contains(text, P_3_7_years)) => ret = <<3, 7>>

\* C4 amended: for all text in which "3-7 years" occurs with no digit
\* anywhere before it (whatever follows it), extract_years_of_experience
\* returns exactly (3,7).
C4_FirstNumber3To7 ==
    (Extracted /\ text # None /\ \E i \in 1..Len(text) : FirstNumberIs3To7At(text, i))
        => ret = <<3, 7>>

\* "3-7 years" with text before it and text after it was extracted.
C4_Witness ==
    /\ Extracted
    /\ text # None
    /\ \E i \in 2..Len(text) :
          /\ FirstNumberIs3To7At(text, i)
          /\ Len(text) >= i + Len(P_3_7_years)
    /\ ret = <<3, 7>>

\* The starts of the numbers (maximal runs of digits) of a text.
NumberStarts(t) ==
    {i \in 1..Len(t) : IsDigit(t[i]) /\ (i = 1 \/ ~IsDigit(t[i - 1]))}

\* The number that starts at i is followed by optional spaces, an optional
\* "+", optional spaces and "year".
YearsFollow(t, i) ==
    LitAt(t, SkipSpace(t, SkipPlus(t, SkipSpace(t, SkipDigits(t, i)))), W_year)

\* The text holds one number only, and that number is a single-number
\* mention of years ("N+ years", "N years", also after "minimum of" or
\* "at least").
OnlySingleNumberMention(t) ==
    /\ Cardinality(NumberStarts(t)) = 1
    /\ \A i \in NumberStarts(t) : YearsFollow(Lower(t), i)

TheNumber(t) ==
    LET i == CHOOSE i \in NumberStarts(t) : TRUE
    IN  ToInt(SubSeq(t, i, SkipDigits(t, i) - 1))

\* C5: for text whose only years-of-experience mention is a single-number
\* form, extract_years_of_experience returns (N, N+3); "5+ years" gives
\* (5,8) and "minimum of 4 years" gives (4,7).
C5_SingleNumberPlus3 ==
    Extracted =>
        /\ (text # None /\ OnlySingleNumberMention(text))
              => ret = <<TheNumber(text), TheNumber(text) + 3>>
        /\ text = P_5plus_years => ret = <<5, 8>>
        /\ text = P_minimum_of_4_years => ret = <<4, 7>>

\* "minimum of 4 years" was extracted as (4,7).
C5_Witness ==
    /\ Extracted
    /\ text = P_minimum_of_4_years
    /\ OnlySingleNumberMention(text)
    /\ ret = <<4, 7>>

\* No digit of the text is followed by optional spaces, an optional "+",
\* optional spaces and "year": none of the five patterns can match.
NoYearsMention(t) ==
    \A i \in 1..Len(t) :
        IsDigit(t[i]) =>
            ~LitAt(t, SkipSpace(t, SkipPlus(t, SkipSpace(t, i + 1))), W_year)

\* C6: for empty text, missing text, text with no number and any other
\* text that none of the five patterns matches, extract_years_of_experience
\* returns (None, None).
C6_NoMatchIsUnconstrained ==
    (Extracted /\ (Falsy(text) \/ NoYearsMention(Lower(text)))) => ret = NoneReq

\* A text with a number but no mention of years was extracted as
\* unconstrained.
C6_Witness ==
    /\ Extracted
    /\ ~Falsy(text)
    /\ HasDigit(text)
    /\ NoYearsMention(Lower(text))
    /\ ret = NoneReq

\* Some year lies in both closed intervals.
Overlap(a, b, c, d) ==
    \E y \in 0..(IF b > d THEN b ELSE d) : a <= y /\ y <= b /\ c <= y /\ y <= d

\* C2: for a requirement (req_min, req_max) that is not unconstrained,
\* is_experience_in_range is true iff NOT (req_max < min_years OR
\* req_min > max_years), which for well-formed intervals is that they share
\* a year; with window (3,7), (8,10) is excluded and (1,3) is included.
C2_InRangeIffOverlap ==
    RangeChecked =>
        LET req == extract_years_of_experience(text)
        IN  /\ req # NoneReq =>
                  /\ ret = ~(req[2] < window[1] \/ req[1] > window[2])
                  /\ (req[1] <= req[2] /\ window[1] <= window[2])
                        => ret = Overlap(req[1], req[2], window[1], window[2])
            /\ (text = P_8_10_years /\ window = <<3, 7>>) => ret = FALSE
            /\ (text = P_1_3_years /\ window = <<3, 7>>) => ret = TRUE

\* Requirement (1,3) was checked against window (3,7) and included.
C2_Witness ==
    /\ RangeChecked
    /\ text = P_1_3_years
    /\ extract_years_of_experience(text) = <<1, 3>>
    /\ window = <<3, 7>>
    /\ ret = TRUE

\* C3: when the extractor finds no requirement in the description (empty
\* and missing descriptions included), is_experience_in_range is true for
\* every window.
C3_UnconstrainedAlwaysInRange ==
    (RangeChecked /\ extract_years_of_experience(text) = NoneReq) => ret = TRUE

\* A missing description was checked against a window and included.
C3_Witness ==
    /\ RangeChecked
    /\ text = None
    /\ window = <<3, 7>>
    /\ ret = TRUE

\* The requirement of the text comes from one of the single-number
\* patterns: there is one, and the range pattern matches nowhere.
SingleNumberRequirement(t) ==
    /\ extract_years_of_experience(t) # NoneReq
    /\ Search(1, Lower(t)) = NoMatch

\* The requirement of every text a range check is given, and whether it
\* is a single-number one, evaluated once.
RequirementOf == [t \in RangeTexts |-> extract_years_of_experience(t)]

IsSingleNumber == [t \in RangeTexts |-> SingleNumberRequirement(t)]

\* A check against the configured window.
ConfiguredWindowChecked ==
    /\ RangeChecked
    /\ window = <<EXPERIENCE_MIN_YEARS, EXPERIENCE_MAX_YEARS>>

\* C28: against the configured window (3,7) a description with a
\* single-number requirement N, extracted as (N, N+3), is in range iff
\* N <= 7; the lower bound of the window excludes none of them, and 0, 1
\* and 2 years are accepted.
C28_SingleNumberInRangeIffAtMost7 ==
    (ConfiguredWindowChecked /\ IsSingleNumber[text]) =>
        LET req == RequirementOf[text]
        IN  /\ req[2] = req[1] + 3
            /\ ret = (req[1] <= 7)
            /\ req[2] >= EXPERIENCE_MIN_YEARS
            /\ req[1] \in 0..2 => ret = TRUE

\* "0 years" was checked against the window (3,7) and accepted.
C28_Witness ==
    /\ ConfiguredWindowChecked
    /\ IsSingleNumber[text]
    /\ RequirementOf[text] = <<0, 3>>
    /\ ret = TRUE

\* w occurs in t, letter case ignored (w is lower case).
ContainsIgnoringCase(t, w) ==
    \E i \in 1..(Len(t) - Len(w) + 1) :
        \A k \in 1..Len(w) : LowerChar(t[i + k - 1]) = w[k]

\* The configured keywords that occur in the text.
KeywordsIn(t) ==
    IF t = None THEN {}
    ELSE {n \in 1..Len(ETL_SKILLS) : ContainsIgnoringCase(t, ETL_SKILLS[n])}
W_hyphen == <<"-">>
W_to == <<" ","t","o"," ">>
W_years == <<" ","y","e","a","r","s">>

\* "<N><sep><M> years" starts at position i of t.
RangeFormAt(t, i, sep) ==
    LET a == SkipDigits(t, i)
        e == SkipDigits(t, a + Len(sep))
    IN  /\ a > i
        /\ LitAt(t, a, sep)
        /\ e > a + Len(sep)
        /\ LitAt(t, e, W_years)

\* The text holds "<N>-<M> years" or "<N> to <M> years".
HasExplicitRange(t) ==
    \E i \in 1..Len(t) : RangeFormAt(t, i, W_hyphen) \/ RangeFormAt(t, i, W_to)

\* A single-number phrase "<N>+ years" starts before position i of t.
PlusPhraseBefore(t, i) ==
    \E j \in 1..(i - 1) : PlusPatternAt(t, j) # NoMatch

\* (N, N+3) for the number N of a phrase "<N>+ years" of t.
HeuristicValues(t) ==
    {<<ToInt(PlusPatternAt(t, j)[1]), ToInt(PlusPatternAt(t, j)[1]) + OpenEndedSpan>> :
        j \in {k \in 1..Len(t) : PlusPatternAt(t, k) # NoMatch}}

\* C19: whenever the text holds an explicit range "<N>-<M> years" or
\* "<N> to <M> years", the range pattern matches and the result is the two
\* numbers of its leftmost match, never a number of a single-number phrase
\* with 3 added, even when such a phrase comes earlier in the text.
C19_ExplicitRangeBeatsHeuristic ==
    (Extracted /\ text # None /\ HasExplicitRange(Lower(text))) =>
        /\ Search(1, Lower(text)) # NoMatch
        /\ ret = <<ToInt(Search(1, Lower(text))[1]),
                   ToInt(Search(1, Lower(text))[2])>>
        /\ ret \notin HeuristicValues(Lower(text))

\* "5+ years" came before "3-7 years" and (3,7) was returned.
C19_Witness ==
    /\ Extracted
    /\ text = P_5plus_years \o <<" ">> \o P_3_7_years
    /\ PlusPhraseBefore(text, Len(P_5plus_years) + 2)
    /\ ret = <<3, 7>>


\* A text in which "minimum of N years" or "at least N years" occurs.
MatchesLatePattern(t) ==
    ~Falsy(t) /\ (Search(4, Lower(t)) # NoMatch \/ Search(5, Lower(t)) # NoMatch)

\* C25: the patterns "minimum of N years" and "at least N years" never
\* determine the result: a text they match is matched by the "N years"
\* pattern too, and the extractor without them returns the same result for
\* every text.
C25_LatePatternsRedundant ==
    Extracted =>
        /\ ret = extract_years_of_experience_FirstThree(text)
        /\ MatchesLatePattern(text) =>
              /\ Search(3, Lower(text)) # NoMatch
              /\ ret # NoneReq

C25_Witness ==
    /\ Extracted
    /\ Search(4, Lower(text)) # NoMatch
    /\ Search(1, Lower(text)) = NoMatch
    /\ Search(2, Lower(text)) = NoMatch
    /\ ret = <<4, 7>>

\* C24: whenever the extractor returns a requirement (min, max), min is at
\* most max.
C24_RequirementWellFormed ==
    (Extracted /\ ret # NoneReq) => ret[1] <= ret[2]



\* C7: the skill matcher is true iff at least 2 of the configured keywords
\* occur in the text as case-insensitive substrings.
C7_AtLeastTwoKeywords ==
    SkillsChecked => ret = (Cardinality(KeywordsIn(text)) >= 2)

\* A text with exactly two keywords, one in upper case and one inside a
\* longer word, was matched.
C7_Witness ==
    /\ fn = "_has_etl_skills"
    /\ text = <<"m","y","s","q","l"," ","P","y","t","h","o","n">>
    /\ Cardinality(KeywordsIn(text)) = 2
    /\ ret = TRUE

---------------------------------------------------------------------------
(* Claims about the aggregation passes *)

\* An adapter call of the pass has returned.
Fetched == lastFetch # <<>>

\* C1: whatever the providers return, the list a pass builds never holds
\* two postings with the same source-qualified job_id.
C1_UniqueJobIds ==
    \A i, j \in 1..Len(all_jobs) :
        i # j => all_jobs[i].job_id # all_jobs[j].job_id

\* The last page held the same posting twice, and the list holds it once.
C1_Witness ==
    /\ Fetched
    /\ lastFetch.returned = 2
    /\ Cardinality(seen_job_ids) = 1
    /\ Len(all_jobs) = 1
    /\ all_jobs[1].job_id \in seen_job_ids

\* C8: an adapter call whose request or decoding failed returns an empty
\* list and raises nothing, so the pass is not ended by it.
C8_FailureGivesEmptyList ==
    Fetched /\ lastFetch.http /\ lastFetch.outcome # "ok" =>
        /\ lastFetch.outcome = "error"
        /\ lastFetch.returned = 0
        /\ pc # "crashed"

\* A JSearch request failed and the pass went on to the next title.
C8_Witness ==
    /\ Fetched
    /\ lastFetch.source = "jsearch"
    /\ lastFetch.outcome = "error"
    /\ lastFetch.returned = 0
    /\ pc = "run"
    /\ idx = lastFetch.idx + 1

\* The credential of the adapter of the last call is absent.
CredentialAbsent ==
    /\ Fetched
    /\ \/ lastFetch.source = "jsearch" /\ ~creds.rapidapi_key
       \/ lastFetch.source = "adzuna"
            /\ (~creds.adzuna_app_id \/ ~creds.adzuna_app_key)

\* C9: with its credential absent an adapter returns an empty list and
\* makes no HTTP request, and the pass goes on with the next pair (or is
\* done after the last one).
C9_NoCredentialNoRequest ==
    CredentialAbsent =>
        /\ ~lastFetch.http
        /\ lastFetch.returned = 0
        /\ idx = lastFetch.idx + 1
        /\ page = 1
        /\ pc = IF idx > Len(Plan(kind)) THEN "done" ELSE "run"

\* Only one part of the Adzuna credential is set: the Adzuna call made no
\* request and the pass went on.
C9_Witness ==
    /\ CredentialAbsent
    /\ lastFetch.source = "adzuna"
    /\ creds.adzuna_app_id
    /\ ~creds.adzuna_app_key
    /\ ~lastFetch.http
    /\ pc = "run"

\* One step of a running pass: the call is for the current pair and page;
\* after an empty page the next call is page 1 of the next pair, after a
\* page with postings it is the next page (at most MAX_PAGES_PER_SOURCE)
\* or page 1 of the next pair, unless the pass ended with an exception.
PagingStep ==
    pc = "run" =>
        /\ lastFetch'.idx = idx
        /\ lastFetch'.page = page
        /\ page <= MAX_PAGES_PER_SOURCE
        /\ \/ idx' = idx + 1 /\ page' = 1
           \/ /\ lastFetch'.returned > 0
              /\ idx' = idx
              /\ page' = page + 1
              /\ page' <= MAX_PAGES_PER_SOURCE
           \/ /\ lastFetch'.returned > 0
              /\ pc' = "crashed"

\* C10: for every pair the pages are asked for in increasing order from
\* 1, at most MAX_PAGES_PER_SOURCE of them, an empty page is the last call
\* for its pair (no later page, no retry) and the pass goes on to the next
\* pair; every pass comes to an end.
C10_PagingAndTermination ==
    /\ [][PagingStep]_vars
    /\ <>(pc \in {"done", "crashed"})

\* The second page of a pair came back empty and the pass is at page 1 of
\* the next pair.
C10_Witness ==
    /\ Fetched
    /\ lastFetch.http
    /\ lastFetch.page = 2
    /\ lastFetch.returned = 0
    /\ idx = lastFetch.idx + 1
    /\ page = 1
    /\ pc = "run"

\* The extracted requirement of a description is unconstrained or shares a
\* year with [lo, hi].
PassesExperience(d, lo, hi) ==
    LET req == extract_years_of_experience(d)
    IN  req = NoneReq \/ Overlap(req[1], req[2], lo, hi)

\* PassesExperience for the configured window, on the descriptions the
\* providers send.
PassesWindow ==
    [d \in Descriptions |->
        PassesExperience(d, EXPERIENCE_MIN_YEARS, EXPERIENCE_MAX_YEARS)]

\* Exactly one adapter of the pass can reach its provider.
OneAdapterEnabled ==
    Cardinality({src \in {"jsearch", "adzuna", "remoteok"} :
                    Enabled(src, creds)}) = 1

\* The in-range posting of the fake page.
FakeInRange == CHOOSE n \in 1..2 : fake[n].description # D_OutOfRange

\* A family pass ran to its end against one fixed fake adapter whose
\* in-range posting no other filter of the family rejects.
FakeFamilyDone ==
    /\ fake # NoFake
    /\ kind \in {"analytics", "scientist"}
    /\ OneAdapterEnabled
    /\ pc = "done"
    /\ kind = "scientist" =>
           Cardinality(KeywordsIn(fake[FakeInRange].description)) >= 2

\* C11: every posting a pass returns passes the experience filter for the
\* configured window, and a family pass over one fixed adapter that
\* returns an in-range and an out-of-range posting returns exactly one
\* posting, the in-range one.
C11_OnlyInRangeReturned ==
    /\ \A n \in 1..Len(all_jobs) :
          PassesWindow[all_jobs[n].description_snippet]
    /\ FakeFamilyDone =>
          /\ Len(all_jobs) = 1
          /\ all_jobs[1].description_snippet = fake[FakeInRange].description

\* The analytics family has gone through all pages of the one fixed
\* adapter: both postings were seen, one was returned.
C11_Witness ==
    /\ FakeFamilyDone
    /\ kind = "analytics"
    /\ Cardinality(seen_job_ids) = 2
    /\ Len(all_jobs) = 1
    /\ lastFetch.page = MAX_PAGES_PER_SOURCE
    /\ lastFetch.returned = 2

\* The number of configured keywords in the descriptions the providers
\* send.
KeywordCount == [d \in Descriptions |-> Cardinality(KeywordsIn(d))]

\* C12: every posting the data-scientist family returns, from any adapter
\* and search term, has at least 2 configured keywords in its description;
\* the analytics family applies no skill filter: it returns an in-range
\* posting that has fewer than 2.
C12_FamilySkillFilter ==
    /\ kind = "scientist" =>
          \A n \in 1..Len(all_jobs) :
              KeywordCount[all_jobs[n].description_snippet] >= MIN_SKILLS_REQUIRED
    /\ /\ kind = "analytics"
       /\ FakeFamilyDone
       /\ KeywordCount[fake[FakeInRange].description] < MIN_SKILLS_REQUIRED
       => \E n \in 1..Len(all_jobs) :
              all_jobs[n].description_snippet = fake[FakeInRange].description

\* The data-scientist family has seen two postings on RemoteOK and
\* returned one of them.
C12_Witness ==
    /\ kind = "scientist"
    /\ fake = NoFake
    /\ Fetched
    /\ lastFetch.source = "remoteok"
    /\ lastFetch.returned = 2
    /\ Cardinality(seen_job_ids) = 2
    /\ Len(all_jobs) = 1
    /\ pc = "run"

\* The last call was a JSearch or Adzuna search of scrape_all_jobs for a
\* title containing "scientist".
ScientistSearch ==
    /\ kind = "all"
    /\ Fetched
    /\ lastFetch.source \in {"jsearch", "adzuna"}
    /\ IsScientistTitle[Plan("all")[lastFetch.idx].job_title]

\* C20: in scrape_all_jobs every posting of the output that a JSearch or
\* Adzuna search for a title containing "scientist" returned has at least
\* 2 ETL keywords in its description, whichever other searches returned it
\* too and in whatever order.
C20_ScientistPostingsHaveSkills ==
    ScientistSearch =>
        \A n \in 1..Len(all_jobs) :
            all_jobs[n].job_id \in
                {QualifiedId("all", lastFetch.source, id) : id \in lastFetch.ids}
            => KeywordCount[all_jobs[n].description_snippet] >= MIN_SKILLS_REQUIRED

\* The text holds one of the relevance keywords, whatever its case.
HasRelevanceKeyword(t) ==
    \E n \in 1..Len(RELEVANT_KEYWORDS) : ContainsIgnoringCase(t, RELEVANT_KEYWORDS[n])

\* The native ids of the entries of a RemoteOK body after the first whose
\* position or joined tags hold a relevance keyword.
RelevantIdsOf(data) ==
    {data[n].job_id : n \in {m \in 2..Len(data) :
        HasRelevanceKeyword(data[m].position)
            \/ HasRelevanceKeyword(JoinTags(data[m].tags))}}

\* A family pass just called RemoteOK, enabled and served by one fixed
\* body that holds relevant postings.
FixedRemoteCall ==
    /\ fake # NoFake
    /\ kind \in {"analytics", "scientist"}
    /\ Fetched
    /\ lastFetch.source = "remoteok"
    /\ creds.remoteok_enabled

\* The title and page arguments fetch_jobs may be given.
TitleArguments ==
    {Plan("scientist")[n].job_title : n \in 1..Len(Plan("scientist"))}
    \cup {ANALYTICS_JOB_TITLE, None}

\* C21: for a fixed body RemoteOK's fetch returns, for every title and
\* page, the entries after the first whose position or tags hold a
\* relevance keyword; so a family pass asks it for every page up to
\* MAX_PAGES_PER_SOURCE of every search term, and what it returned again
\* adds nothing to the list: its ids are already seen.
C21_RemoteIgnoresTitleAndPage ==
    FixedRemoteCall =>
        /\ lastFetch.ids = RelevantIdsOf(FakeResponse("remoteok", fake).data)
        /\ lastFetch.returned = 2
        /\ \A t \in TitleArguments, p \in 1..MAX_PAGES_PER_SOURCE :
              RemoteOK_fetch_jobs(t, p, creds, FakeResponse("remoteok", fake)).jobs
                  = RemoteOK_fetch_jobs(None, 1, creds, FakeResponse("remoteok", fake)).jobs
        /\ <<idx, page>> =
              IF lastFetch.page < MAX_PAGES_PER_SOURCE
              THEN <<lastFetch.idx, lastFetch.page + 1>>
              ELSE <<lastFetch.idx + 1, 1>>
        /\ {QualifiedId(kind, "remoteok", id) : id \in lastFetch.ids} \subseteq seen_job_ids
        /\ Cardinality({n \in 1..Len(all_jobs) :
                            all_jobs[n].source = SourceLabel(kind, "remoteok")})
              <= lastFetch.returned

\* The data-scientist family asked RemoteOK for the last page of its
\* second search term and got the same two postings once more.
C21_Witness ==
    /\ FixedRemoteCall
    /\ kind = "scientist"
    /\ Plan("scientist")[lastFetch.idx].job_title = SEARCH_TERMS[2]
    /\ lastFetch.page = MAX_PAGES_PER_SOURCE
    /\ lastFetch.returned = 2
    /\ Cardinality(seen_job_ids) = 2
    /\ Len(all_jobs) <= 1

\* The source-qualified ids of the postings of the list.
OutputIds(jobs) == {jobs[n].job_id : n \in 1..Len(jobs)}

\* The source-qualified ids of what the last call returned, and of those
\* of them that get through the filters.
ReturnedIds == {QualifiedId(kind, lastFetch.source, id) : id \in lastFetch.ids}

ReturnedPassingIds ==
    {QualifiedId(kind, lastFetch.source, id) : id \in lastFetch.passing}

\* C26: a pass adds the source-qualified id of a posting to the seen set
\* before it applies the filters: after a page is handled every id it
\* returned is seen, within a run the seen set only grows, and an id that
\* is seen but not in the list never enters the list, whatever is
\* returned under it later.
C26_RejectedNeverReturns ==
    [][tries' = tries =>
          /\ seen_job_ids \subseteq seen_job_ids'
          /\ OutputIds(all_jobs') \subseteq seen_job_ids'
          /\ \A id \in seen_job_ids :
                id \notin OutputIds(all_jobs) => id \notin OutputIds(all_jobs')
          /\ pc' # "crashed" => ReturnedIds' \subseteq seen_job_ids']_vars

\* A later call of the run returned, under an id that was rejected
\* before, a posting that gets through the filters, and the list stayed
\* empty.
C26_Witness ==
    /\ Fetched
    /\ lastFetch.returned = 1
    /\ lastFetch.idx > 1 \/ lastFetch.page > 1
    /\ pc # "crashed"
    /\ ReturnedPassingIds # {}
    /\ ReturnedPassingIds \subseteq seen_job_ids
    /\ all_jobs = <<>>

\* The postings of the list that came from src without a native id.
IdLess(src) ==
    {n \in 1..Len(all_jobs) : all_jobs[n].job_id = IdPrefix(kind, src)}

\* C27: a posting without a native id gets the bare prefix of its source
\* as its id, so the list of a run holds at most one such posting per
\* source, and once a call has returned one the bare prefix is seen and
\* every further one is dropped.
C27_OneIdLessPerSource ==
    \A src \in {"jsearch", "adzuna", "remoteok"} :
        /\ QualifiedId(kind, src, <<>>) = IdPrefix(kind, src)
        /\ Cardinality(IdLess(src)) <= 1
        /\ (Fetched /\ pc # "crashed" /\ lastFetch.source = src /\ <<>> \in lastFetch.ids)
              => IdPrefix(kind, src) \in seen_job_ids

\* A call returned two postings, neither with a native id and at least
\* one getting through the filters, and the list holds one posting.
C27_Witness ==
    /\ Fetched
    /\ lastFetch.returned = 2
    /\ lastFetch.ids = {<<>>}
    /\ lastFetch.passing = {<<>>}
    /\ Len(all_jobs) = 1
    /\ IdLess(lastFetch.source) = {1}

\* An invocation after the first.
LaterRun == tries["scrape_jobs"] >= 1

\* C23: every invocation of a pass starts with an empty list and an empty
\* seen set, so what it returns depends on what is fetched in it alone: a
\* posting the fixed adapter serves is returned by a later invocation just
\* as by the first, and an invocation that fetches nothing returns
\* nothing.
C23_NoStateAcrossRuns ==
    /\ (pc = "run" /\ ~Fetched) => (all_jobs = <<>> /\ seen_job_ids = {})
    /\ FakeFamilyDone =>
          /\ Len(all_jobs) = 1
          /\ all_jobs[1].description_snippet = fake[FakeInRange].description
          /\ Cardinality(seen_job_ids) = 2
    /\ (pc = "done" /\ \A src \in {"jsearch", "adzuna", "remoteok"} : ~Enabled(src, creds))
          => (all_jobs = <<>> /\ seen_job_ids = {})

\* A second invocation of a family pass returned the posting of the fixed
\* adapter again.
C23_Witness ==
    /\ LaterRun
    /\ FakeFamilyDone
    /\ Len(all_jobs) = 1
    /\ all_jobs[1].description_snippet = fake[FakeInRange].description

---------------------------------------------------------------------------
(* Claims about the pipeline run *)

\* A task instance that has been started at least once.
Started(t) == task[t] \in {"running", "success", "up_for_retry", "failed"}

\* C13: within one run export_csv is started only once scrape_jobs has
\* succeeded and send_notification only once export_csv has succeeded, and
\* what the export stage receives and counts is the complete list that
\* scrape_all_jobs returned.
C13_StagesStrictlyOrdered ==
    /\ Started("export_csv") =>
          /\ task["scrape_jobs"] = "success"
          /\ pc = "done"
          /\ xcom.jobs = XVal([n \in 1..Len(all_jobs) |-> AllKeys(all_jobs[n])])
    /\ Started("send_notification") => task["export_csv"] = "success"
    /\ xcom.job_count # XNone =>
          /\ xcom.job_count = XVal(Len(all_jobs))
          /\ Len(files[xcom.csv_filepath.value].rows) = Len(all_jobs)

\* A run that retried the scrape stage, collected a posting and went
\* through all three stages.
C13_Witness ==
    /\ task["send_notification"] = "success"
    /\ tries["scrape_jobs"] >= 2
    /\ Len(all_jobs) >= 1

---------------------------------------------------------------------------
(* Claims about the CSV exporter *)

\* The last call was an export over no postings: export_to_csv with the
\* empty list, or export_csv_task with nothing or the empty list pulled.
EmptyExport ==
    /\ fn \in {"export_to_csv", "export_csv_task"}
    /\ text \in {XNone, XVal(<<>>)}

\* C14: an export over an empty list, and the export task when it pulls
\* no list at all, writes a file whose header is the fixed columns and
\* that has no data row.
C14_EmptyListHeaderOnly ==
    EmptyExport =>
        /\ ret \in DOMAIN files
        /\ files[ret].header = COLUMNS
        /\ files[ret].rows = <<>>

\* The export task pulled nothing and wrote its file.
C14_Witness ==
    /\ fn = "export_csv_task"
    /\ text = XNone
    /\ ret \in DOMAIN files
    /\ files[ret].rows = <<>>
    /\ xcom.job_count = XVal(0)

\* The list the last export call worked on.
ExportedList == IF text = XNone THEN <<>> ELSE text.value

\* The row of a posting under the fixed columns, a missing field blank.
FixedRow(job) ==
    [k \in 1..Len(COLUMNS) |->
        IF COLUMNS[k] \in DOMAIN job THEN job[COLUMNS[k]] ELSE Blank]

\* C15: for every job list the file written has the fixed columns in the
\* fixed order as its header, and each row holds the posting's fields
\* under them, a field the posting lacks left blank.
C15_FixedColumnsMissingBlank ==
    fn \in {"export_to_csv", "export_csv_task"} =>
        /\ ret \in DOMAIN files
        /\ files[ret].header = COLUMNS
        /\ files[ret].rows =
              [n \in 1..Len(ExportedList) |-> FixedRow(ExportedList[n])]

\* C16: every invocation of the export writes a file of its own, so there
\* are as many files as there were invocations and no file of an earlier
\* invocation is overwritten by a later one.
C16_OneFilePerInvocation ==
    Cardinality(DOMAIN files) = tries["export_csv"]

---------------------------------------------------------------------------
(* Claims about the notifier *)

\* The notification task ended in failure.
NotificationFailedRun ==
    task["send_notification"] \in {"failed", "up_for_retry", "upstream_failed"}

\* C17: with no topic configured send_notification creates no client and
\* makes no publish call, returns without raising, and the notification
\* task succeeds.
C17_NoTopicSilentlySkipped ==
    ~sns.topic =>
        /\ sns.clients = 0
        /\ sns.publishes = 0
        /\ fn = "send_notification" =>
              /\ ret = FALSE
              /\ task["send_notification"] = "success"
        /\ task["export_csv"] = "success" => ~NotificationFailedRun

\* The notification task ran with no topic configured.
C17_Witness ==
    /\ ~sns.topic
    /\ fn = "send_notification"
    /\ tries["send_notification"] = 1
    /\ task["send_notification"] = "success"

\* C18: with a topic configured and a client at hand, send_notification
\* makes one publish call per invocation and no more, returns TRUE exactly
\* when that call succeeded and FALSE, without raising, when it failed,
\* and the notification task succeeds either way.
C18_PublishFailureReturnsFalse ==
    /\ sns.publishes <= tries["send_notification"]
    /\ (sns.topic /\ fn = "send_notification" /\ text[1] \in PublishOutcomes) =>
          /\ task["send_notification"] = "success"
          /\ ret = (text = <<"ok">>)

\* C22: the job count the notification carries, in its subject, in the
\* total of its body and in its JobCount attribute, is the number of
\* postings the scrape stage returned and the number of data rows of the
\* CSV file written in the same run.
C22_NotifiedCountMatches ==
    sns.publishes >= 1 =>
        /\ ToInt(sns.message.JobCount) = Len(all_jobs)
        /\ sns.message.Subject = Str(Len(all_jobs))
        /\ sns.message.Total = Str(Len(all_jobs))
        /\ sns.message.File \in DOMAIN files
        /\ Len(files[sns.message.File].rows) = Len(all_jobs)

\* A notification about two scraped and exported postings was handed to
\* client.publish.
C22_Witness ==
    /\ sns.publishes = 1
    /\ Len(all_jobs) = 2
    /\ sns.message.JobCount = <<"2">>
    /\ Len(files[sns.message.File].rows) = 2

\* The sum of the counts of a breakdown.
RECURSIVE SumCounts(_)
SumCounts(role_counts) ==
    IF role_counts = {} THEN 0
    ELSE LET item == CHOOSE item \in role_counts : TRUE
         IN  item[2] + SumCounts(role_counts \ {item})

RoleNames == {"Data Engineer", "Analytics Engineer", "Data Scientist", "Other"}

\* C29: the breakdown the export task pushes counts every exported
\* posting under exactly one of the roles Data Engineer, Analytics
\* Engineer, Data Scientist or Other, so its counts sum to the job count
\* pushed with it, and the breakdown of a notification sums to the total
\* that notification reports.
C29_RoleCountsSumToTotal ==
    /\ task["export_csv"] = "success" =>
          /\ xcom.role_counts # XNone
          /\ \A item \in xcom.role_counts.value : item[1] \in RoleNames /\ item[2] >= 1
          /\ \A r \in RoleNames :
                Cardinality({item \in xcom.role_counts.value : item[1] = r}) <= 1
          /\ SumCounts(xcom.role_counts.value) = xcom.job_count.value
          /\ xcom.job_count.value = Len(xcom.jobs.value)
          /\ xcom.jobs.value = <<TitledJob(T_ScientistEngineer)>>
                => xcom.role_counts.value = {<<"Data Engineer", 1>>}
    /\ sns.publishes >= 1 =>
          SumCounts(sns.message.ByRole) = ToInt(sns.message.Total)

\* A notification about two postings of different roles was handed to
\* client.publish.
C29_Witness ==
    /\ sns.publishes = 1
    /\ sns.message.Total = <<"2">>
    /\ sns.message.ByRole = {<<"Data Engineer", 1>>, <<"Other", 1>>}

====
